---- MODULE Spec2Model ----
(***************************************************************************)
(* A model of the trill response engine (crates/trill_core): the compiler  *)
(* that lowers criteria, rules and response groups into the engine, the   *)
(* run-time query (find_best_response) and the five response dispatchers. *)
(*                                                                         *)
(* Representation.                                                         *)
(*  - Ustr names of variables are the integers 1..NVars; their order is   *)
(*    the order Ustr's Ord gives the names.  Names of criteria, rules and *)
(*    groups, and string values, are TLA+ strings.                        *)
(*  - f32 values are integers on an ordinal scale.  F32Min stands for     *)
(*    f32::MIN and NextUp for f32::next_up, so the codes the encoder      *)
(*    hands out are F32Min, F32Min+1, ... and lie below every number the  *)
(*    model uses, as f32::MIN lies below every number a script uses.      *)
(*  - Option<T> is a sequence: <<>> is None, <<x>> is Some(x).            *)
(*  - Indices into Vec are 0-based values as in the source; a Vec is a    *)
(*    TLA+ sequence, so element i of the Vec is seq[i + 1].               *)
(*  - A random draw is a nondeterministic choice among the outcomes of    *)
(*    positive probability.                                               *)
(***************************************************************************)
EXTENDS Integers, Sequences, FiniteSets, TLC

\* ---------------------------------------------------------------------------
\* Bounds

\* Largest number of responses in a response group.
MaxLen == 3

\* Number of ResponseDispatcher::next calls made on the stand-alone dispatcher.
MaxNextCalls == 7

\* Number of find_best_response calls made on one engine.
MaxCalls == 3

\* ---------------------------------------------------------------------------
\* Option and sequence helpers

None == <<>>

Some(x) == <<x>>

IsSome(o) == Len(o) = 1

\* Vec::remove(pos) for a 0-based position.
RemoveAt(s, pos) ==
    [k \in 1..(Len(s) - 1) |-> IF k <= pos THEN s[k] ELSE s[k + 1]]

\* (0..n).collect()
RangeVec(n) == [k \in 1..n |-> k - 1]

SeqRange(s) == {s[k] : k \in 1..Len(s)}

\* ---------------------------------------------------------------------------
\* Response groups and dispatchers (lib.rs ResponseGroup::build,
\* engine.rs ResponseDispatcher)

Deliveries == {"Shuffle", "Random", "Deplete", "Loop", "List"}

\* string.parse::<f32>() on the weight strings the model uses; any other
\* string fails to parse.
ParseF32(string) ==
    CASE string = "0" -> Some(0)
      [] string = "1" -> Some(1)
      [] string = "2" -> Some(2)
      [] OTHER -> None

\* The weight of one response: the "weight" property parsed, 1.0 when the
\* property is missing or does not parse.
ResponseWeight(properties) ==
    IF IsSome(properties.weight) /\ IsSome(ParseF32(properties.weight[1]))
    THEN ParseF32(properties.weight[1])[1]
    ELSE 1

\* A dispatcher has one record shape for the five kinds; the fields a kind
\* does not have are empty or zero.
Dispatcher(kind, weights, candidates, len, index) ==
    [kind |-> kind, weights |-> weights, candidates |-> candidates,
     len |-> len, index |-> index]

ResponseGroupBuild(group) ==
    LET n == Len(group.responses)
        weights == [k \in 1..n |-> ResponseWeight(group.responses[k])]
        responses == [k \in 1..n |-> group.responses[k].line]
        dispatcher ==
            CASE group.delivery = "Shuffle" ->
                    Dispatcher("Shuffle", weights, RangeVec(n), 0, 0)
              [] group.delivery = "Random" ->
                    Dispatcher("Random", weights, <<>>, 0, 0)
              [] group.delivery = "Deplete" ->
                    Dispatcher("Deplete", weights, RangeVec(n), 0, 0)
              [] group.delivery = "Loop" ->
                    Dispatcher("Loop", <<>>, <<>>, n, 0)
              [] OTHER ->
                    Dispatcher("List", <<>>, <<>>, n, 0)
    IN [dispatcher |-> dispatcher, responses |-> responses]

\* rand's choose_weighted over a list of weights: an error (the empty set) on
\* an empty list, a negative weight or a zero total; otherwise any position
\* (0-based) of positive weight.
ChooseWeighted(ws) ==
    IF \/ Len(ws) = 0
       \/ \E k \in 1..Len(ws) : ws[k] < 0
       \/ \A k \in 1..Len(ws) : ws[k] = 0
    THEN {}
    ELSE {k - 1 : k \in {j \in 1..Len(ws) : ws[j] > 0}}

Outcome(d, r, panic) == [d |-> d, r |-> r, panic |-> panic]

\* ShuffleNext with the refill keeping the response just emitted.
ShuffleNextRefillAll(d) ==
    IF Len(d.weights) = 1
    THEN {Outcome(d, Some(0), FALSE)}
    ELSE LET picks == ChooseWeighted(
                 [k \in 1..Len(d.candidates) |-> d.weights[d.candidates[k] + 1]])
         IN IF picks = {}
            THEN {Outcome(d, None, FALSE)}
            ELSE {LET i == d.candidates[pos + 1]
                      rest == RemoveAt(d.candidates, pos)
                      refilled == IF Len(rest) = 0
                                  THEN RangeVec(Len(d.weights))
                                  ELSE rest
                  IN Outcome([d EXCEPT !.candidates = refilled], Some(i), FALSE)
                  : pos \in picks}

\* The Shuffle arm of `next`.
ShuffleNext(d) ==
    IF Len(d.weights) = 1
    THEN {Outcome(d, Some(0), FALSE)}
    ELSE LET picks == ChooseWeighted(
                 [k \in 1..Len(d.candidates) |-> d.weights[d.candidates[k] + 1]])
         IN IF picks = {}
            THEN {Outcome(d, None, FALSE)}
            ELSE {LET i == d.candidates[pos + 1]
                      rest == RemoveAt(d.candidates, pos)
                      refilled == IF Len(rest) = 0
                                  THEN RemoveAt(RangeVec(Len(d.weights)), i)
                                  ELSE rest
                  IN Outcome([d EXCEPT !.candidates = refilled], Some(i), FALSE)
                  : pos \in picks}

\* The Random arm of `next`.
RandomNext(d) ==
    IF Len(d.weights) = 1
    THEN {Outcome(d, Some(0), FALSE)}
    ELSE LET picks == ChooseWeighted(d.weights)
         IN IF picks = {}
            THEN {Outcome(d, None, FALSE)}
            ELSE {Outcome(d, Some(i), FALSE) : i \in picks}

\* DepleteNext without the removal of the chosen candidate.
DepleteNextKeeps(d) ==
    LET picks == ChooseWeighted(
            [k \in 1..Len(d.candidates) |-> d.weights[d.candidates[k] + 1]])
    IN IF picks = {}
       THEN {Outcome(d, None, FALSE)}
       ELSE {Outcome(d, Some(d.candidates[pos + 1]), FALSE) : pos \in picks}

\* The Deplete arm of `next`.
DepleteNext(d) ==
    LET picks == ChooseWeighted(
            [k \in 1..Len(d.candidates) |-> d.weights[d.candidates[k] + 1]])
    IN IF picks = {}
       THEN {Outcome(d, None, FALSE)}
       ELSE {Outcome([d EXCEPT !.candidates = RemoveAt(d.candidates, pos)],
                     Some(d.candidates[pos + 1]), FALSE) : pos \in picks}

\* LoopNext without the wrap of the index.
LoopNextNoWrap(d) ==
    IF d.len = 0
    THEN {Outcome(d, None, TRUE)}
    ELSE {Outcome([d EXCEPT !.index = d.index + 1], Some(d.index), FALSE)}

\* The Loop arm of `next`; `(*index + 1) % *len` panics when len is 0
\* (remainder by zero).
LoopNext(d) ==
    IF d.len = 0
    THEN {Outcome(d, None, TRUE)}
    ELSE {Outcome([d EXCEPT !.index = (d.index + 1) % d.len], Some(d.index), FALSE)}

\* ListNext with the bound test off by one.
ListNextOffByOne(d) ==
    IF d.index <= d.len
    THEN {Outcome([d EXCEPT !.index = d.index + 1], Some(d.index), FALSE)}
    ELSE {Outcome(d, None, FALSE)}

\* The List arm of `next`.
ListNext(d) ==
    IF d.index < d.len
    THEN {Outcome([d EXCEPT !.index = d.index + 1], Some(d.index), FALSE)}
    ELSE {Outcome(d, None, FALSE)}

\* ResponseDispatcher::next: the set of outcomes the random source allows.
DispatcherNext(d) ==
    CASE d.kind = "Shuffle" -> ShuffleNext(d)
      [] d.kind = "Random" -> RandomNext(d)
      [] d.kind = "Deplete" -> DepleteNext(d)
      [] d.kind = "Loop" -> LoopNext(d)
      [] OTHER -> ListNext(d)

\* DisableRule with the Loop arm treated like a List that reached its end.
DisableRuleLoopWraps(d) ==
    CASE d.kind \in {"Shuffle", "Random"} -> FALSE
      [] d.kind = "Loop" -> d.index = 0
      [] d.kind = "Deplete" -> Len(d.candidates) = 0
      [] OTHER -> d.len = d.index

\* ResponseDispatcher::disable_rule
DisableRule(d) ==
    CASE d.kind \in {"Shuffle", "Loop", "Random"} -> FALSE
      [] d.kind = "Deplete" -> Len(d.candidates) = 0
      [] OTHER -> d.len = d.index

\* ---------------------------------------------------------------------------
\* Values and the encoder (props/mod.rs Value, engine.rs Encoder)

Bool(b) == [t |-> "Bool", b |-> b, n |-> 0, s |-> ""]

Num(n) == [t |-> "Num", b |-> FALSE, n |-> n, s |-> ""]

Str(s) == [t |-> "Str", b |-> FALSE, n |-> 0, s |-> s]

\* f32::MIN on the model's ordinal scale.
F32Min == -1000

\* f32::next_up
NextUp(x) == x + 1

\* Encoder::default
EncoderDefault == [next_float |-> F32Min, encodings |-> <<>>]

\* The encodings table is a sequence of <<string, code>> entries in the order
\* of first observation.
HasCode(enc, ustr) == \E k \in 1..Len(enc.encodings) : enc.encodings[k][1] = ustr

CodeOf(enc, ustr) ==
    enc.encodings[CHOOSE k \in 1..Len(enc.encodings) : enc.encodings[k][1] = ustr][2]

\* encode_ustr with next_float left where it is.
EncodeUstrSameCode(enc, ustr) ==
    IF HasCode(enc, ustr)
    THEN [code |-> CodeOf(enc, ustr), encoder |-> enc]
    ELSE [code |-> enc.next_float,
          encoder |-> [next_float |-> enc.next_float,
                       encodings |-> Append(enc.encodings, <<ustr, enc.next_float>>)]]

\* Encoder::encode_ustr: the code and the encoder after the call.
EncodeUstr(enc, ustr) ==
    IF HasCode(enc, ustr)
    THEN [code |-> CodeOf(enc, ustr), encoder |-> enc]
    ELSE [code |-> enc.next_float,
          encoder |-> [next_float |-> NextUp(enc.next_float),
                       encodings |-> Append(enc.encodings, <<ustr, enc.next_float>>)]]

\* Encoder::encode
Encode(enc, value) ==
    CASE value.t = "Bool" -> [code |-> IF value.b THEN 1 ELSE 0, encoder |-> enc]
      [] value.t = "Num" -> [code |-> value.n, encoder |-> enc]
      [] OTHER -> EncodeUstr(enc, value.s)

\* ---------------------------------------------------------------------------
\* Props, Scanner and Query (props/mod.rs Props, engine.rs Query, Scanner)

\* Number of variable names; name k is the k-th name in Ustr order.
NVars == 3

Vars == 1..NVars

\* A Props is a function from a set of names to values; BTreeMap iterates it
\* in ascending name order.
RECURSIVE SortedNames(_)
SortedNames(S) ==
    IF S = {} THEN <<>>
    ELSE LET m == CHOOSE x \in S : \A y \in S : x <= y
         IN <<m>> \o SortedNames(S \ {m})

PropsIter(props) ==
    LET names == SortedNames(DOMAIN props)
    IN [k \in 1..Len(names) |-> <<names[k], props[names[k]]>>]

\* Scanner::new
ScannerNew(items) == [items |-> items, cursor |-> 0]

\* The map over one Props in Query::build: encodes the items from position k
\* on, in order, threading the encoder.
RECURSIVE EncodeItems(_, _, _)
EncodeItems(items, k, enc) ==
    IF k > Len(items)
    THEN [items |-> <<>>, encoder |-> enc]
    ELSE LET e == Encode(enc, items[k][2])
             rest == EncodeItems(items, k + 1, e.encoder)
         IN [items |-> <<<<items[k][1], e.code>>>> \o rest.items,
             encoder |-> rest.encoder]

\* Query::build over the list of Props from position k on.
RECURSIVE QueryBuildFrom(_, _, _)
QueryBuildFrom(props_list, k, enc) ==
    IF k > Len(props_list)
    THEN [scanners |-> <<>>, encoder |-> enc]
    ELSE LET e == EncodeItems(PropsIter(props_list[k]), 1, enc)
             rest == QueryBuildFrom(props_list, k + 1, e.encoder)
         IN [scanners |-> <<ScannerNew(e.items)>> \o rest.scanners,
             encoder |-> rest.encoder]

\* Query::build: the query and the encoder after the call.
QueryBuild(props_list, enc) ==
    LET b == QueryBuildFrom(props_list, 1, enc)
    IN [query |-> [scanners |-> b.scanners], encoder |-> b.encoder]

\* ScanPosition with the search started one item after the cursor.
ScanPositionAfter(s, variable) ==
    LET hits == {k \in (s.cursor + 2)..Len(s.items) : s.items[k][1] >= variable}
    IN IF hits = {} THEN None
       ELSE Some((CHOOSE k \in hits : \A j \in hits : k <= j) - 1 - s.cursor)

\* The `position` of Scanner::scan_to: the offset from the cursor of the first
\* item whose name is >= variable; None when there is none.
ScanPosition(s, variable) ==
    LET hits == {k \in (s.cursor + 1)..Len(s.items) : s.items[k][1] >= variable}
    IN IF hits = {} THEN None
       ELSE Some((CHOOSE k \in hits : \A j \in hits : k <= j) - 1 - s.cursor)

\* Scanner::scan_to: the scanner after the call and the value found.
ScannerScanTo(s, variable) ==
    LET search_result == ScanPosition(s, variable)
    IN IF IsSome(search_result)
       THEN LET cursor == s.cursor + search_result[1]
                item == s.items[cursor + 1]
            IN [s |-> [s EXCEPT !.cursor = cursor],
                r |-> IF item[1] = variable THEN Some(item[2]) ELSE None]
       ELSE [s |-> [s EXCEPT !.cursor = Len(s.items)], r |-> None]

\* Scanner::reset
ScannerReset(s) == [s EXCEPT !.cursor = 0]

\* Query::scan_to: find_map stops at the first scanner that has the variable;
\* the scanners after it are not advanced.
RECURSIVE QueryScanFrom(_, _, _)
QueryScanFrom(scanners, k, var_name) ==
    IF k > Len(scanners)
    THEN [scanners |-> scanners, r |-> None]
    ELSE LET one == ScannerScanTo(scanners[k], var_name)
             advanced == [scanners EXCEPT ![k] = one.s]
         IN IF IsSome(one.r)
            THEN [scanners |-> advanced, r |-> one.r]
            ELSE QueryScanFrom(advanced, k + 1, var_name)

\* QueryScanTo with every scanner advanced and the last hit returned.
QueryScanToLast(q, var_name) ==
    LET each == [k \in 1..Len(q.scanners) |-> ScannerScanTo(q.scanners[k], var_name)]
        hits == {k \in 1..Len(q.scanners) : IsSome(each[k].r)}
    IN [q |-> [scanners |-> [k \in 1..Len(q.scanners) |-> each[k].s]],
        r |-> IF hits = {} THEN None
              ELSE each[CHOOSE k \in hits : \A j \in hits : j <= k].r]

\* Query::scan_to
QueryScanTo(q, var_name) ==
    LET res == QueryScanFrom(q.scanners, 1, var_name)
    IN [q |-> [scanners |-> res.scanners], r |-> res.r]

\* Query::reset
QueryReset(q) ==
    [scanners |-> [k \in 1..Len(q.scanners) |-> ScannerReset(q.scanners[k])]]

\* ---------------------------------------------------------------------------
\* Definitions handed to the compiler (lib.rs Criterion, Predicate, Rule,
\* Instruction, Operation)

\* A predicate has one record shape for the four kinds.
BoolEqual(b) == [kind |-> "BoolEqual", b |-> b, n |-> 0, lo |-> None, hi |-> None, s |-> ""]

NumEqual(n) == [kind |-> "NumEqual", b |-> FALSE, n |-> n, lo |-> None, hi |-> None, s |-> ""]

NumRange(lo, hi) == [kind |-> "NumRange", b |-> FALSE, n |-> 0, lo |-> lo, hi |-> hi, s |-> ""]

StrEqual(s) == [kind |-> "StrEqual", b |-> FALSE, n |-> 0, lo |-> None, hi |-> None, s |-> s]

Criterion(variable, predicate, weight) ==
    [variable |-> variable, predicate |-> predicate, weight |-> weight]

\* An operation has one record shape for the five kinds.
BoolSet(b) == [kind |-> "BoolSet", b |-> b, n |-> 0, s |-> ""]

BoolToggle == [kind |-> "BoolToggle", b |-> FALSE, n |-> 0, s |-> ""]

NumSet(n) == [kind |-> "NumSet", b |-> FALSE, n |-> n, s |-> ""]

NumAdd(n) == [kind |-> "NumAdd", b |-> FALSE, n |-> n, s |-> ""]

StrSet(s) == [kind |-> "StrSet", b |-> FALSE, n |-> 0, s |-> s]

Instruction(variable, global, operation) ==
    [variable |-> variable, global |-> global, operation |-> operation]

Rule(criteria, response_groups, instructions) ==
    [criteria |-> criteria, response_groups |-> response_groups,
     instructions |-> instructions]

\* f32::NEG_INFINITY and f32::INFINITY on the model's ordinal scale.
NegInfinity == -2000

Infinity == 2000

\* ---------------------------------------------------------------------------
\* The compiler (lib.rs Criterion::build, Rule::build,
\* ResponseEngineCompiler::finish)

\* Context::default
ContextDefault ==
    [errors |-> <<>>, encoder |-> EncoderDefault,
     variable_usages |-> [v \in Vars |-> <<>>]]

PredicateType(predicate) ==
    CASE predicate.kind = "BoolEqual" -> "Bool"
      [] predicate.kind \in {"NumEqual", "NumRange"} -> "Num"
      [] OTHER -> "Str"

OperationType(operation) ==
    CASE operation.kind \in {"BoolSet", "BoolToggle"} -> "Bool"
      [] operation.kind \in {"NumSet", "NumAdd"} -> "Num"
      [] OTHER -> "Str"

\* The push of one usage onto the usages of a variable.
AddUsage(ctx, variable, infered_type, location) ==
    [ctx EXCEPT !.variable_usages[variable] =
        Append(@, [infered_type |-> infered_type, location |-> location])]

\* Criterion::build: the engine criterion and the context after the call.
CriterionBuild(criterion, name, ctx) ==
    LET used == AddUsage(ctx, criterion.variable,
                         PredicateType(criterion.predicate), <<"Criterion", name>>)
        p == criterion.predicate
        e == EncodeUstr(used.encoder, p.s)
        min == CASE p.kind = "BoolEqual" -> IF p.b THEN 1 ELSE 0
                 [] p.kind = "NumEqual" -> p.n
                 [] p.kind = "NumRange" -> IF IsSome(p.lo) THEN p.lo[1] ELSE NegInfinity
                 [] OTHER -> e.code
        max == CASE p.kind = "BoolEqual" -> IF p.b THEN 1 ELSE 0
                 [] p.kind = "NumEqual" -> p.n
                 [] p.kind = "NumRange" -> IF IsSome(p.hi) THEN p.hi[1] ELSE Infinity
                 [] OTHER -> e.code
    IN [criterion |-> [variable |-> criterion.variable, min |-> min, max |-> max],
        ctx |-> IF p.kind = "StrEqual" THEN [used EXCEPT !.encoder = e.encoder] ELSE used]

\* The first loop of finish over the criteria, from position k of the map's
\* iteration order: the Vec of engine criteria, the index
\* name -> (i, weight, partition) and the context.
RECURSIVE CompileCriteria(_, _, _, _)
CompileCriteria(program, k, acc, ctx) ==
    IF k > Len(program.criteria_order)
    THEN [criteria |-> acc.criteria, criteria_index |-> acc.criteria_index, ctx |-> ctx]
    ELSE LET name == program.criteria_order[k]
             criterion == program.criteria[name]
             built == CriterionBuild(criterion, name, ctx)
             partition == /\ built.criterion.min = built.criterion.max
                          /\ built.criterion.variable \in program.partition_variables
             entry == [i |-> k - 1, weight |-> criterion.weight, partition |-> partition]
         IN CompileCriteria(program, k + 1,
                [criteria |-> Append(acc.criteria, built.criterion),
                 criteria_index |-> [n \in DOMAIN acc.criteria_index \cup {name} |->
                                        IF n = name THEN entry ELSE acc.criteria_index[n]]],
                built.ctx)

\* One compile error.  The fields an error kind does not have are empty.
CompileError(kind, name, in, variable, usages) ==
    [error |-> kind, name |-> name, in |-> in, variable |-> variable, usages |-> usages]

\* The InvalidWeightString errors ResponseGroup::build pushes, in the order of
\* the responses.
ResponseGroupErrors(group, name) ==
    LET bad == SortedNames({j \in 1..Len(group.responses) :
                    /\ IsSome(group.responses[j].weight)
                    /\ ~IsSome(ParseF32(group.responses[j].weight[1]))})
    IN [k \in 1..Len(bad) |->
            CompileError("InvalidWeightString", group.responses[bad[k]].weight[1],
                         name, 0, <<>>)]

\* The second loop of finish over the response groups.
RECURSIVE CompileGroups(_, _, _, _)
CompileGroups(program, k, acc, ctx) ==
    IF k > Len(program.group_order)
    THEN [response_groups |-> acc.response_groups,
          response_group_index |-> acc.response_group_index, ctx |-> ctx]
    ELSE LET name == program.group_order[k]
             group == program.response_groups[name]
         IN CompileGroups(program, k + 1,
                [response_groups |-> Append(acc.response_groups, ResponseGroupBuild(group)),
                 response_group_index |->
                    [n \in DOMAIN acc.response_group_index \cup {name} |->
                        IF n = name THEN k - 1 ELSE acc.response_group_index[n]]],
                [ctx EXCEPT !.errors = @ \o ResponseGroupErrors(group, name)])

\* The instruction map of Rule::build: a later instruction on a variable
\* replaces an earlier one.
RECURSIVE InstructionMap(_, _, _)
InstructionMap(instructions, k, acc) ==
    IF k > Len(instructions)
    THEN acc
    ELSE LET ins == instructions[k]
         IN InstructionMap(instructions, k + 1,
                [v \in DOMAIN acc \cup {ins.variable} |->
                    IF v = ins.variable
                    THEN [global |-> ins.global, op |-> ins.operation]
                    ELSE acc[v]])

\* The usages Rule::build records for the instructions.
RECURSIVE InstructionUsages(_, _, _, _)
InstructionUsages(instructions, k, name, ctx) ==
    IF k > Len(instructions)
    THEN ctx
    ELSE InstructionUsages(instructions, k + 1, name,
            AddUsage(ctx, instructions[k].variable,
                     OperationType(instructions[k].operation), <<"Rule", name>>))

\* A sort that leaves the list as it was.
SortByKeyUnsorted(pairs) == pairs

\* sort_by_key (stable) of a Vec of <<key, item>> pairs, by insertion.
RECURSIVE SortByKey(_)
SortByKey(pairs) ==
    IF Len(pairs) <= 1 THEN pairs
    ELSE LET front == SortByKey(SubSeq(pairs, 1, Len(pairs) - 1))
             last == pairs[Len(pairs)]
             before == SelectSeq(front, LAMBDA x : x[1] <= last[1])
             after == SelectSeq(front, LAMBDA x : x[1] > last[1])
         IN before \o <<last>> \o after

\* UseCriterion with the partition criterion dropped from the scan list but
\* not pushed onto the partition key.
UseCriterionDropsKey(acc, e, criterion) ==
    [acc EXCEPT
        !.used_variables = @ \cup {criterion.variable},
        !.score = @ + e.weight,
        !.criteria = IF e.partition THEN @ ELSE Append(@, e.i)]

\* UseCriterion with the weight of a partition criterion left out of the
\* score.
UseCriterionScoresScanned(acc, e, criterion) ==
    [acc EXCEPT
        !.used_variables = @ \cup {criterion.variable},
        !.score = IF e.partition THEN @ ELSE @ + e.weight,
        !.partition_key =
            IF e.partition
            THEN Append(@, <<criterion.variable, criterion.min>>)
            ELSE @,
        !.criteria = IF e.partition THEN @ ELSE Append(@, e.i)]

\* The first criterion of a rule on a variable: its weight joins the score and
\* it goes to the partition key or to the scan list.
UseCriterion(acc, e, criterion) ==
    [acc EXCEPT
        !.used_variables = @ \cup {criterion.variable},
        !.score = @ + e.weight,
        !.partition_key =
            IF e.partition
            THEN Append(@, <<criterion.variable, criterion.min>>)
            ELSE @,
        !.criteria = IF e.partition THEN @ ELSE Append(@, e.i)]

\* RepeatCriterion with the diagnostic pushed on every repeat.
RepeatCriterionAlways(acc, criterion, criterion_name, in_rule) ==
    [acc EXCEPT
        !.repeated_variables = @ \cup {criterion.variable},
        !.errors = Append(@, CompileError("RepeatedVariable",
                                criterion_name, in_rule, 0, <<>>))]

\* A further criterion of a rule on a variable it already uses: the
\* RepeatedVariable diagnostic is pushed the first time the variable repeats.
RepeatCriterion(acc, criterion, criterion_name, in_rule) ==
    IF criterion.variable \notin acc.repeated_variables
    THEN [acc EXCEPT
            !.repeated_variables = @ \cup {criterion.variable},
            !.errors = Append(@, CompileError("RepeatedVariable",
                                    criterion_name, in_rule, 0, <<>>))]
    ELSE acc

\* The loop of Rule::build over the referenced criteria, from position k.
RECURSIVE RuleCriteria(_, _, _, _, _, _)
RuleCriteria(names, k, in_rule, all_criteria, criteria_index, acc) ==
    IF k > Len(names)
    THEN acc
    ELSE LET criterion_name == names[k]
             next ==
                IF criterion_name \in DOMAIN criteria_index
                THEN LET e == criteria_index[criterion_name]
                         criterion == all_criteria[e.i + 1]
                     IN IF criterion.variable \notin acc.used_variables
                        THEN UseCriterion(acc, e, criterion)
                        ELSE RepeatCriterion(acc, criterion, criterion_name, in_rule)
                ELSE [acc EXCEPT !.errors = Append(@, CompileError("MissingCriterion",
                                                criterion_name, in_rule, 0, <<>>))]
         IN RuleCriteria(names, k + 1, in_rule, all_criteria, criteria_index, next)

\* The loop of Rule::build over the referenced response groups.
RECURSIVE RuleGroups(_, _, _, _, _)
RuleGroups(names, k, in_rule, response_groups_index, acc) ==
    IF k > Len(names)
    THEN acc
    ELSE RuleGroups(names, k + 1, in_rule, response_groups_index,
            IF names[k] \in DOMAIN response_groups_index
            THEN [acc EXCEPT !.response_groups =
                                Append(@, response_groups_index[names[k]])]
            ELSE [acc EXCEPT !.errors = Append(@, CompileError("MissingResponseGroup",
                                                names[k], in_rule, 0, <<>>))])

\* The end of Rule::build: the two sorts and the values returned, from the
\* context after the instructions (typed), the instruction map and the
\* results of the two loops.
RuleFinalize(name, typed, instructions, scanned, grouped, all_criteria) ==
    LET by_variable == SortByKey([k \in 1..Len(scanned.criteria) |->
                            <<all_criteria[scanned.criteria[k] + 1].variable,
                              scanned.criteria[k]>>])
        by_key == SortByKey([k \in 1..Len(scanned.partition_key) |->
                            <<scanned.partition_key[k][1], scanned.partition_key[k]>>])
    IN [rule |-> [criteria |-> [k \in 1..Len(by_variable) |-> by_variable[k][2]],
                  response_groups |-> grouped.response_groups,
                  instructions |-> instructions,
                  score |-> scanned.score,
                  enabled |-> TRUE,
                  name |-> name],
        partition_key |-> [k \in 1..Len(by_key) |-> by_key[k][2]],
        ctx |-> [typed EXCEPT !.errors = @ \o scanned.errors \o grouped.errors]]

\* Rule::build with the first instruction on a variable kept instead of the
\* last.
RuleBuildFirstInstruction(rule, name, ctx, all_criteria, criteria_index, response_groups_index) ==
    RuleFinalize(name,
        InstructionUsages(rule.instructions, 1, name, ctx),
        InstructionMap([k \in 1..Len(rule.instructions) |->
                            rule.instructions[Len(rule.instructions) + 1 - k]], 1, <<>>),
        RuleCriteria(rule.criteria, 1, name, all_criteria, criteria_index,
            [score |-> 0, criteria |-> <<>>, partition_key |-> <<>>,
             used_variables |-> {}, repeated_variables |-> {}, errors |-> <<>>]),
        RuleGroups(rule.response_groups, 1, name, response_groups_index,
            [response_groups |-> <<>>, errors |-> <<>>]),
        all_criteria)

\* Rule::build: the engine rule, its partition key assignments and the context
\* after the call.  The engine rule carries the rule's name, which the source
\* drops; nothing in the engine reads it.
RuleBuild(rule, name, ctx, all_criteria, criteria_index, response_groups_index) ==
    RuleFinalize(name,
        InstructionUsages(rule.instructions, 1, name, ctx),
        InstructionMap(rule.instructions, 1, <<>>),
        RuleCriteria(rule.criteria, 1, name, all_criteria, criteria_index,
            [score |-> 0, criteria |-> <<>>, partition_key |-> <<>>,
             used_variables |-> {}, repeated_variables |-> {}, errors |-> <<>>]),
        RuleGroups(rule.response_groups, 1, name, response_groups_index,
            [response_groups |-> <<>>, errors |-> <<>>]),
        all_criteria)

\* RulePartitions::get_partition_key_for_assignments.  The key is the 64-bit
\* rapidhash of the (variable, value bits) pairs in order; the model takes the
\* hash to be injective and uses the list of pairs itself as the key.
GetPartitionKeyForAssignments(assignments) == assignments

\* The body of the third loop of finish after Rule::build returned: the rule
\* is pushed under the key of its partition key assignments.
PushRule(acc, built) ==
    [pushed |-> Append(acc.pushed,
                    [key |-> GetPartitionKeyForAssignments(built.partition_key),
                     rule |-> built.rule]),
     ctx |-> built.ctx]

\* The third loop of finish over the rules, from position k of the map's
\* iteration order: every engine rule with its partition key, in the order
\* the rules are pushed.
RECURSIVE CompileRules(_, _, _, _, _)
CompileRules(program, k, compiled, groups, acc) ==
    IF k > Len(program.rule_order)
    THEN acc
    ELSE CompileRules(program, k + 1, compiled, groups,
            PushRule(acc,
                RuleBuild(program.rules[program.rule_order[k]], program.rule_order[k],
                          acc.ctx, compiled.criteria, compiled.criteria_index,
                          groups.response_group_index)))

\* The rules pushed under one key, in push order.
Bucket(pushed, key) ==
    LET mine == SelectSeq(pushed, LAMBDA x : x.key = key)
    IN [k \in 1..Len(mine) |-> mine[k].rule]

IndexPermutations(n) ==
    {p \in [1..n -> 1..n] : \A i, j \in 1..n : p[i] = p[j] => i = j}

\* sort_unstable_by descending score: any arrangement of the bucket in
\* non-increasing score order (the order of equal scores is not specified).
SortedByScore(bucket) ==
    {[k \in 1..Len(bucket) |-> bucket[p[k]]] : p \in
        {q \in IndexPermutations(Len(bucket)) :
            \A k \in 1..(Len(bucket) - 1) : bucket[q[k]].score >= bucket[q[k + 1]].score}}

\* Coherent with only the first window compared.
CoherentFirstWindow(usages) ==
    Len(usages) < 2 \/ usages[1].infered_type = usages[2].infered_type

\* usages.windows(2).all(|w| w[0].infered_type == w[1].infered_type)
Coherent(usages) ==
    \A k \in 1..(Len(usages) - 1) : usages[k].infered_type = usages[k + 1].infered_type

\* The orders in which a hash map with the given keys may yield them: the
\* order follows the hashes of the keys and the layout of the table, so it
\* can be any arrangement of the keys.
IterationOrders(keys) ==
    {order \in [1..Cardinality(keys) -> keys] :
        \A i, j \in 1..Cardinality(keys) : order[i] = order[j] => i = j}

\* The type check of finish: one IndeterminateVariableType error for each
\* variable whose usages are not coherent, pushed in the order in which the
\* variable_usages map is iterated; the set of the lists that can result.
TypeErrors(ctx) ==
    {[k \in 1..Len(order) |->
            CompileError("IndeterminateVariableType", "", "", order[k],
                         ctx.variable_usages[order[k]])] :
        order \in IterationOrders({v \in Vars : ~Coherent(ctx.variable_usages[v])})}

\* partition_variables.into_iter().collect() followed by sort(): the set of
\* partition variables is iterated in any order and the list is sorted; the
\* set of the lists that can result.
SortedVars(partition_variables) ==
    {[k \in 1..Len(order) |-> SortByKey([j \in 1..Len(order) |->
                                            <<order[j], order[j]>>])[k][2]] :
        order \in IterationOrders(partition_variables)}

\* finish after its three loops: the lists the sort of the partition
\* variables can leave, the compiled parts, the errors of the three loops and
\* the lists of errors the type check can add to them.
FinishReport(program, compiled, groups, ruled) ==
    [criteria |-> compiled.criteria,
     vars |-> SortedVars(program.partition_variables),
     pushed |-> ruled.pushed,
     response_groups |-> groups.response_groups,
     encoder |-> ruled.ctx.encoder,
     errors |-> ruled.ctx.errors,
     type_errors |-> TypeErrors(ruled.ctx)]

\* finish from its third loop on.
FinishRules(program, compiled, groups) ==
    FinishReport(program, compiled, groups,
        CompileRules(program, 1, compiled, groups, [pushed |-> <<>>, ctx |-> groups.ctx]))

\* finish from its second loop on.
FinishGroups(program, compiled) ==
    FinishRules(program, compiled,
        CompileGroups(program, 1,
            [response_groups |-> <<>>, response_group_index |-> <<>>], compiled.ctx))

\* ResponseEngineCompiler::finish up to the sort: the compiled parts and the
\* report's errors.
Finish(program) ==
    FinishGroups(program,
        CompileCriteria(program, 1,
            [criteria |-> <<>>, criteria_index |-> <<>>], ContextDefault))

\* The engines finish returns from its compiled parts f: none when the
\* report has an error, otherwise one for each arrangement the sort can
\* leave.
SortedEngines(f) ==
    LET keys == {f.pushed[k].key : k \in 1..Len(f.pushed)}
    IN IF f.errors # <<>> \/ f.type_errors # {<<>>}
       THEN {}
       ELSE {[criteria |-> f.criteria,
              rules |-> [vars |-> partition_variables, partitions |-> parts],
              response_groups |-> f.response_groups,
              encoder |-> f.encoder] :
                partition_variables \in f.vars,
                parts \in {ps \in [keys -> UNION {SortedByScore(Bucket(f.pushed, key)) : key \in keys}] :
                              \A key \in keys : ps[key] \in SortedByScore(Bucket(f.pushed, key))}}

\* The engines finish can return for a program.
Engines(program) == SortedEngines(Finish(program))

\* ---------------------------------------------------------------------------
\* The run-time query (engine.rs RulePartitions, ResponseEngine)

\* The combinations of k elements of a list, in the order itertools yields
\* them.
RECURSIVE Combinations(_, _)
Combinations(s, k) ==
    IF k = 0 THEN <<<<>>>>
    ELSE IF Len(s) < k THEN <<>>
    ELSE LET with == Combinations(Tail(s), k - 1)
         IN [j \in 1..Len(with) |-> <<Head(s)>> \o with[j]] \o Combinations(Tail(s), k)

\* itertools powerset: the subsets by increasing size, the empty one first.
RECURSIVE PowersetFrom(_, _)
PowersetFrom(s, k) ==
    IF k > Len(s) THEN <<>> ELSE Combinations(s, k) \o PowersetFrom(s, k + 1)

Powerset(s) == PowersetFrom(s, 0)

\* The loop of get_partition_keys_for_query over the partition variables.
RECURSIVE PartitionAssignments(_, _, _, _)
PartitionAssignments(vars, k, q, assignments) ==
    IF k > Len(vars)
    THEN assignments
    ELSE LET hit == QueryScanTo(q, vars[k])
         IN PartitionAssignments(vars, k + 1, hit.q,
                IF IsSome(hit.r) THEN Append(assignments, <<vars[k], hit.r[1]>>)
                ELSE assignments)

\* get_partition_keys_for_query without the powerset: the key of all the
\* assignments and nothing else.
GetPartitionKeysForQueryFull(rules, query) ==
    <<GetPartitionKeyForAssignments(
        PartitionAssignments(rules.vars, 1, QueryReset(query), <<>>))>>

\* RulePartitions::get_partition_keys_for_query
GetPartitionKeysForQuery(rules, query) ==
    LET subsets == Powerset(PartitionAssignments(rules.vars, 1, QueryReset(query), <<>>))
    IN [k \in 1..Len(subsets) |-> GetPartitionKeyForAssignments(subsets[k])]

\* RulePartitions::get_partition
GetPartition(rules, key) ==
    IF key \in DOMAIN rules.partitions THEN rules.partitions[key] ELSE <<>>

\* The loop of match_rule_criteria over the rule's criteria, from position k.
RECURSIVE MatchFrom(_, _, _, _)
MatchFrom(all_criteria, q, rule, k) ==
    IF k > Len(rule.criteria)
    THEN TRUE
    ELSE LET criterion == all_criteria[rule.criteria[k] + 1]
             hit == QueryScanTo(q, criterion.variable)
         IN IF IsSome(hit.r)
            THEN IF criterion.min <= hit.r[1] /\ hit.r[1] <= criterion.max
                 THEN MatchFrom(all_criteria, hit.q, rule, k + 1)
                 ELSE FALSE
            ELSE FALSE

\* ResponseEngine::match_rule_criteria
MatchRuleCriteria(all_criteria, query, rule) ==
    MatchFrom(all_criteria, QueryReset(query), rule, 1)

RuleId(key, index) == [key |-> key, index |-> index]

\* ScoreBreaks with the exit taken on a tie as well.
ScoreBreaksOnTie(score, best_score) == score <= best_score

\* The early exit of the scan: `if rule.score < best_score { break; }`
ScoreBreaks(score, best_score) == score < best_score

\* The inner loop of find_best_matching_rule over one partition, from rule i
\* (0-based); acc is (best_score, best_rules).
RECURSIVE ScanPartition(_, _, _, _, _, _)
ScanPartition(all_criteria, query, partition, key, i, acc) ==
    IF i >= Len(partition)
    THEN acc
    ELSE LET rule == partition[i + 1]
         IN IF ScoreBreaks(rule.score, acc.best_score)
            THEN acc
            ELSE ScanPartition(all_criteria, query, partition, key, i + 1,
                    IF MatchRuleCriteria(all_criteria, query, rule)
                    THEN IF rule.score > acc.best_score
                         THEN [best_score |-> rule.score,
                               best_rules |-> <<RuleId(key, i)>>]
                         ELSE [acc EXCEPT !.best_rules = Append(@, RuleId(key, i))]
                    ELSE acc)

\* The outer loop of find_best_matching_rule over the partition keys.
RECURSIVE ScanPartitions(_, _, _, _, _, _)
ScanPartitions(all_criteria, rules, query, keys, k, acc) ==
    IF k > Len(keys)
    THEN acc
    ELSE ScanPartitions(all_criteria, rules, query, keys, k + 1,
            ScanPartition(all_criteria, query, GetPartition(rules, keys[k]),
                          keys[k], 0, acc))

\* find_best_matching_rule up to the random choice: the list best_rules, of
\* which the function returns a random element (None when it is empty).
FindBestMatchingRule(all_criteria, rules, query) ==
    ScanPartitions(all_criteria, rules, query,
                   GetPartitionKeysForQuery(rules, query), 1,
                   [best_score |-> 0, best_rules |-> <<>>]).best_rules

\* Props::get_value
PropsGetValue(props, var) == IF var \in DOMAIN props THEN Some(props[var]) ELSE None

\* PropsSet that keeps nothing but the variable set.
PropsSetOnly(props, var, value) == [v \in {var} |-> value]

\* Props::set
PropsSet(props, var, value) ==
    [v \in DOMAIN props \cup {var} |-> IF v = var THEN value ELSE props[v]]

\* ApplyOperation with BoolToggle setting true whatever the variable holds.
ApplyOperationToggleSets(props, var, op, enc) ==
    CASE op.kind \in {"BoolSet", "BoolToggle"} ->
            [props |-> PropsSet(props, var, Bool(op.kind = "BoolToggle" \/ op.b)),
             encoder |-> enc]
      [] op.kind = "NumSet" ->
            [props |-> PropsSet(props, var, Num(op.n)), encoder |-> enc]
      [] op.kind = "NumAdd" ->
            [props |-> PropsSet(props, var,
                        Num(IF var \in DOMAIN props /\ props[var].t = "Num"
                            THEN props[var].n + op.n ELSE op.n)),
             encoder |-> enc]
      [] OTHER ->
            [props |-> PropsSet(props, var, Num(EncodeUstr(enc, op.s).code)),
             encoder |-> EncodeUstr(enc, op.s).encoder]

\* One instruction of find_best_response applied to its store: the store and
\* the encoder after it.  StrSet stores the f32 code the encoder returns.
ApplyOperation(props, var, op, enc) ==
    LET value == PropsGetValue(props, var)
    IN CASE IsSome(value) /\ value[1].t = "Bool" /\ op.kind = "BoolToggle" ->
                [props |-> PropsSet(props, var, Bool(~value[1].b)), encoder |-> enc]
         [] IsSome(value) /\ value[1].t = "Num" /\ op.kind = "NumAdd" ->
                [props |-> PropsSet(props, var, Num(value[1].n + op.n)), encoder |-> enc]
         [] op.kind = "BoolSet" ->
                [props |-> PropsSet(props, var, Bool(op.b)), encoder |-> enc]
         [] op.kind = "BoolToggle" ->
                [props |-> PropsSet(props, var, Bool(TRUE)), encoder |-> enc]
         [] op.kind = "NumSet" ->
                [props |-> PropsSet(props, var, Num(op.n)), encoder |-> enc]
         [] op.kind = "NumAdd" ->
                [props |-> PropsSet(props, var, Num(op.n)), encoder |-> enc]
         [] OTHER ->
                LET e == EncodeUstr(enc, op.s)
                IN [props |-> PropsSet(props, var, Num(e.code)), encoder |-> e.encoder]

\* The instruction loop of find_best_response, over the variables of the
\* instruction map in the order the map yields them, from position k.
RECURSIVE ApplyInstructions(_, _, _, _)
ApplyInstructions(instructions, order, k, st) ==
    IF k > Len(order)
    THEN st
    ELSE LET var == order[k]
             ins == instructions[var]
         IN IF ins.global
            THEN LET a == ApplyOperation(st.world, var, ins.op, st.encoder)
                 IN ApplyInstructions(instructions, order, k + 1,
                        [st EXCEPT !.world = a.props, !.encoder = a.encoder])
            ELSE LET a == ApplyOperation(st.character, var, ins.op, st.encoder)
                 IN ApplyInstructions(instructions, order, k + 1,
                        [st EXCEPT !.character = a.props, !.encoder = a.encoder])

\* The arrangements of a finite set of integers as a list.
Orderings(S) ==
    LET names == SortedNames(S)
    IN {[k \in 1..Len(names) |-> names[p[k]]] : p \in IndexPermutations(Len(names))}

\* The response loop of find_best_response over the shuffled group indices,
\* from position k: the groups after it, the response (group, index), whether
\* the rule is to be disabled and whether `next` panicked.
RECURSIVE Dispatch(_, _, _)
Dispatch(groups, group_indicies, k) ==
    IF k > Len(group_indicies)
    THEN {[response_groups |-> groups, response |-> None,
           disable |-> FALSE, panic |-> FALSE]}
    ELSE LET group_index == group_indicies[k]
         IN UNION {
              IF o.panic
              THEN {[response_groups |-> groups, response |-> None,
                     disable |-> FALSE, panic |-> TRUE]}
              ELSE IF IsSome(o.r)
              THEN {[response_groups |->
                        [groups EXCEPT ![group_index + 1].dispatcher = o.d],
                     response |-> Some(<<group_index, o.r[1]>>),
                     disable |-> DisableRule(o.d), panic |-> FALSE]}
              ELSE Dispatch([groups EXCEPT ![group_index + 1].dispatcher = o.d],
                            group_indicies, k + 1)
              : o \in DispatcherNext(groups[group_index + 1].dispatcher)}

\* The shuffle of the rule's response group indices: any arrangement.
Shuffled(list) ==
    {[k \in 1..Len(list) |-> list[p[k]]] : p \in IndexPermutations(Len(list))}

\* ---------------------------------------------------------------------------
\* The programs and queries the model draws from

Response(weight, line) == [weight |-> weight, line |-> line]

ResponseGroup(delivery, responses) == [delivery |-> delivery, responses |-> responses]

CriteriaDefs ==
    [name \in {"Talk", "Yell", "Hp1", "Low", "Seen", "Cold"} |->
        CASE name = "Talk" -> Criterion(1, StrEqual("talk"), 2)
          [] name = "Yell" -> Criterion(1, StrEqual("yell"), 1)
          [] name = "Hp1" -> Criterion(2, NumEqual(1), 1)
          [] name = "Low" -> Criterion(2, NumRange(None, Some(1)), 1)
          [] name = "Seen" -> Criterion(3, BoolEqual(TRUE), 1)
          [] OTHER -> Criterion(3, BoolEqual(FALSE), -1)]

GroupDefs ==
    [name \in {"GD", "GE", "GL", "GN", "GO", "GR", "GS", "GZ"} |->
        CASE name = "GD" -> ResponseGroup("Deplete",
                                <<Response(None, "d0"), Response(None, "d1")>>)
          [] name = "GE" -> ResponseGroup("Loop", <<>>)
          [] name = "GL" -> ResponseGroup("List",
                                <<Response(None, "l0"), Response(None, "l1")>>)
          [] name = "GN" -> ResponseGroup("Deplete", <<>>)
          [] name = "GO" -> ResponseGroup("Loop",
                                <<Response(None, "o0"), Response(None, "o1")>>)
          [] name = "GR" -> ResponseGroup("Random",
                                <<Response(Some("2"), "r0"), Response(None, "r1")>>)
          [] name = "GS" -> ResponseGroup("Shuffle",
                                <<Response(None, "s0"), Response(None, "s1")>>)
          [] OTHER -> ResponseGroup("Deplete",
                                <<Response(Some("1"), "z0"), Response(Some("0"), "z1")>>)]

RulePool ==
    <<Rule(<<"Talk">>, <<"GD">>, <<>>),
      Rule(<<"Talk", "Low">>, <<"GL", "GR">>, <<Instruction(2, FALSE, NumAdd(1))>>),
      Rule(<<>>, <<"GS", "GO">>, <<Instruction(3, TRUE, BoolToggle)>>),
      Rule(<<"Hp1">>, <<"GZ">>, <<Instruction(1, FALSE, StrSet("talk")),
                                   Instruction(3, TRUE, BoolSet(TRUE)),
                                   Instruction(2, TRUE, NumAdd(1))>>),
      Rule(<<"Yell", "Seen">>, <<"GE", "GN">>, <<Instruction(1, TRUE, StrSet("yell"))>>),
      Rule(<<"Cold">>, <<"GN">>, <<>>)>>

RuleNames == {"R1", "R2"}

\* What varies between the programs: the declared partition variables, the
\* two rules and the order in which each of the compiler's three hash maps is
\* iterated.  A program defines the criteria and the response groups its rules
\* reference.  The rules R1 and R2 are two rules of the pool; the pairs keep
\* the definitions few enough for every iteration order of the maps to be
\* drawn.
Programs ==
    UNION {{[partition_variables |-> pv,
             rules |-> pair,
             criteria_order |-> criteria_order,
             group_order |-> group_order,
             rule_order |-> rule_order] :
                pv \in {{}, {1}, {1, 2}},
                criteria_order \in IterationOrders(
                    UNION {SeqRange(pair[name].criteria) : name \in RuleNames}),
                group_order \in IterationOrders(
                    UNION {SeqRange(pair[name].response_groups) : name \in RuleNames}),
                rule_order \in IterationOrders(RuleNames)} :
            pair \in {[name \in RuleNames |->
                            IF name = "R1" THEN RulePool[p[1]] ELSE RulePool[p[2]]] :
                        p \in {<<1, 3>>, <<1, 4>>, <<2, 2>>, <<5, 5>>, <<6, 6>>}}}

\* The ResponseEngineCompiler of a program, with the order in which its maps
\* are iterated.
Compiler(prog) ==
    [partition_variables |-> prog.partition_variables,
     criteria |-> [name \in SeqRange(prog.criteria_order) |-> CriteriaDefs[name]],
     response_groups |-> [name \in SeqRange(prog.group_order) |-> GroupDefs[name]],
     rules |-> prog.rules,
     criteria_order |-> prog.criteria_order,
     group_order |-> prog.group_order,
     rule_order |-> prog.rule_order]

\* The request stores: any of the variables 1 and 2, each with a value.
Requests ==
    {r \in UNION {[dom -> {Str("talk"), Str("yell"), Num(1)}] : dom \in SUBSET {1, 2}} :
        /\ 1 \in DOMAIN r => r[1].t = "Str"
        /\ 2 \in DOMAIN r => r[2].t = "Num"}

\* ---------------------------------------------------------------------------
\* State

VARIABLES
    program,          \* the definitions the engine was compiled from
    criteria,         \* ResponseEngine.criteria
    rules,            \* ResponseEngine.rules: vars and partitions
    response_groups,  \* ResponseEngine.response_groups
    encoder,          \* ResponseEngine.encoder
    character_props,  \* the caller's character store
    world_props,      \* the caller's world store
    selected,         \* the rule the last call selected (None if none)
    response,         \* the (group, index) the last call returned (None if none)
    calls,            \* number of find_best_response calls made
    nsel,             \* per rule name, the number of calls that selected it
    emitted,          \* per group, the response indices emitted so far
    nexts,            \* the results of the `next` calls on the stand-alone dispatcher
    panicked,         \* a call panicked
    compiled,         \* what ScriptCompiler::compile returned (None before the call)
    operands,         \* the operands of a Value operation, the inputs of Rule::build
    outcome,          \* what the operation returned (None before it)
    world,            \* the bevy World: entities, their components, the Registry
    query,            \* a Query: its scanners, each with items and cursor
    scanned           \* the scan_to calls since the last reset of the query

vars == <<program, criteria, rules, response_groups, encoder, character_props,
          world_props, selected, response, calls, nsel, emitted, nexts, panicked,
          compiled, operands, outcome, world, query, scanned>>

\* The state after ScriptCompiler/ResponseEngineCompiler returned an engine
\* and the caller set up its stores.
Init ==
    /\ program \in Programs
    /\ \E engine \in Engines(Compiler(program)) :
        /\ criteria = engine.criteria
        /\ rules = engine.rules
        /\ response_groups = engine.response_groups
        /\ encoder = engine.encoder
    /\ character_props = <<>>
    /\ world_props \in {<<>>, [v \in {1, 3} |-> IF v = 1 THEN Str("yell") ELSE Bool(TRUE)]}
    /\ selected = None
    /\ response = None
    /\ calls = 0
    /\ nsel = [name \in RuleNames |-> 0]
    /\ emitted = [g \in 1..Len(response_groups) |-> {}]
    /\ nexts = <<>>
    /\ panicked = FALSE
    /\ query = <<>>
    /\ scanned = <<>>
    /\ operands = <<>>
    /\ outcome = None
    /\ world = <<>>
    /\ compiled = None

GetRule(rs, id) == rs.partitions[id.key][id.index + 1]

\* find_best_response with every rule enabled again by a call that finds no
\* matching rule.
FindBestResponseReenables(request_props) ==
    /\ ~panicked
    /\ calls < MaxCalls
    /\ LET built == QueryBuild(<<request_props, character_props, world_props>>, encoder)
           best_rules == FindBestMatchingRule(criteria, rules, built.query)
       IN IF best_rules = <<>>
          THEN /\ encoder' = built.encoder
               /\ selected' = None
               /\ response' = None
               /\ rules' = [rules EXCEPT !.partitions =
                                [key \in DOMAIN @ |->
                                    [k \in 1..Len(@[key]) |-> [@[key][k] EXCEPT !.enabled = TRUE]]]]
               /\ UNCHANGED <<response_groups, character_props, world_props,
                              nsel, emitted, panicked>>
          ELSE \E id \in SeqRange(best_rules) :
               LET rule == GetRule(rules, id)
               IN \E order \in Orderings(DOMAIN rule.instructions) :
                  \E group_indicies \in Shuffled(rule.response_groups) :
                  \E out \in Dispatch(response_groups, group_indicies, 1) :
                  LET applied == ApplyInstructions(rule.instructions, order, 1,
                                    [character |-> character_props,
                                     world |-> world_props,
                                     encoder |-> built.encoder])
                  IN /\ character_props' = applied.character
                     /\ world_props' = applied.world
                     /\ encoder' = applied.encoder
                     /\ response_groups' = out.response_groups
                     /\ rules' = IF out.disable
                                 THEN [rules EXCEPT
                                        !.partitions[id.key][id.index + 1].enabled = FALSE]
                                 ELSE rules
                     /\ selected' = Some(id)
                     /\ response' = out.response
                     /\ nsel' = [nsel EXCEPT ![rule.name] = @ + 1]
                     /\ emitted' = IF IsSome(out.response)
                                   THEN [emitted EXCEPT ![out.response[1][1] + 1] =
                                            @ \cup {out.response[1][2]}]
                                   ELSE emitted
                     /\ panicked' = out.panic
    /\ calls' = calls + 1
    /\ UNCHANGED <<program, criteria, nexts, compiled, operands,
                   outcome, world,
                   query, scanned>>

\* find_best_response with the instructions applied only by a call that
\* returns a response.
FindBestResponseRespondsFirst(request_props) ==
    /\ ~panicked
    /\ calls < MaxCalls
    /\ LET built == QueryBuild(<<request_props, character_props, world_props>>, encoder)
           best_rules == FindBestMatchingRule(criteria, rules, built.query)
       IN IF best_rules = <<>>
          THEN /\ encoder' = built.encoder
               /\ selected' = None
               /\ response' = None
               /\ UNCHANGED <<rules, response_groups, character_props, world_props,
                              nsel, emitted, panicked>>
          ELSE \E id \in SeqRange(best_rules) :
               LET rule == GetRule(rules, id)
               IN \E order \in Orderings(DOMAIN rule.instructions) :
                  \E group_indicies \in Shuffled(rule.response_groups) :
                  \E out \in Dispatch(response_groups, group_indicies, 1) :
                  LET applied == ApplyInstructions(rule.instructions, order, 1,
                                    [character |-> character_props,
                                     world |-> world_props,
                                     encoder |-> built.encoder])
                  IN /\ character_props' = IF IsSome(out.response)
                                          THEN applied.character ELSE character_props
                     /\ world_props' = IF IsSome(out.response)
                                      THEN applied.world ELSE world_props
                     /\ encoder' = IF IsSome(out.response)
                                  THEN applied.encoder ELSE built.encoder
                     /\ response_groups' = out.response_groups
                     /\ rules' = IF out.disable
                                 THEN [rules EXCEPT
                                        !.partitions[id.key][id.index + 1].enabled = FALSE]
                                 ELSE rules
                     /\ selected' = Some(id)
                     /\ response' = out.response
                     /\ nsel' = [nsel EXCEPT ![rule.name] = @ + 1]
                     /\ emitted' = IF IsSome(out.response)
                                   THEN [emitted EXCEPT ![out.response[1][1] + 1] =
                                            @ \cup {out.response[1][2]}]
                                   ELSE emitted
                     /\ panicked' = out.panic
    /\ calls' = calls + 1
    /\ UNCHANGED <<program, criteria, nexts, compiled, operands,
                   outcome, world,
                   query, scanned>>

\* find_best_response(request_props, character_props, world_props, rng)
FindBestResponse(request_props) ==
    /\ ~panicked
    /\ calls < MaxCalls
    /\ LET built == QueryBuild(<<request_props, character_props, world_props>>, encoder)
           best_rules == FindBestMatchingRule(criteria, rules, built.query)
       IN IF best_rules = <<>>
          THEN /\ encoder' = built.encoder
               /\ selected' = None
               /\ response' = None
               /\ UNCHANGED <<rules, response_groups, character_props, world_props,
                              nsel, emitted, panicked>>
          ELSE \E id \in SeqRange(best_rules) :
               LET rule == GetRule(rules, id)
               IN \E order \in Orderings(DOMAIN rule.instructions) :
                  \E group_indicies \in Shuffled(rule.response_groups) :
                  \E out \in Dispatch(response_groups, group_indicies, 1) :
                  LET applied == ApplyInstructions(rule.instructions, order, 1,
                                    [character |-> character_props,
                                     world |-> world_props,
                                     encoder |-> built.encoder])
                  IN /\ character_props' = applied.character
                     /\ world_props' = applied.world
                     /\ encoder' = applied.encoder
                     /\ response_groups' = out.response_groups
                     /\ rules' = IF out.disable
                                 THEN [rules EXCEPT
                                        !.partitions[id.key][id.index + 1].enabled = FALSE]
                                 ELSE rules
                     /\ selected' = Some(id)
                     /\ response' = out.response
                     /\ nsel' = [nsel EXCEPT ![rule.name] = @ + 1]
                     /\ emitted' = IF IsSome(out.response)
                                   THEN [emitted EXCEPT ![out.response[1][1] + 1] =
                                            @ \cup {out.response[1][2]}]
                                   ELSE emitted
                     /\ panicked' = out.panic
    /\ calls' = calls + 1
    /\ UNCHANGED <<program, criteria, nexts, compiled, operands,
                   outcome, world,
                   query, scanned>>

Next == \E request_props \in Requests : FindBestResponse(request_props)

Spec == Init /\ [][Next]_vars

\* ---------------------------------------------------------------------------
\* One dispatcher on its own: a response group is built and `next` is called
\* on its dispatcher again and again.


StandaloneGroups ==
    {ResponseGroup(delivery, [k \in 1..n |-> Response(ws[k], "line")]) :
        delivery \in Deliveries, n \in 0..MaxLen, ws \in [1..MaxLen -> {None, Some("0"), Some("2")}]}

DispatcherInit ==
    /\ program \in StandaloneGroups
    /\ response_groups = <<ResponseGroupBuild(program)>>
    /\ criteria = <<>>
    /\ rules = [vars |-> <<>>, partitions |-> <<>>]
    /\ encoder = EncoderDefault
    /\ character_props = <<>>
    /\ world_props = <<>>
    /\ selected = None
    /\ response = None
    /\ calls = 0
    /\ nsel = [name \in RuleNames |-> 0]
    /\ emitted = <<{}>>
    /\ nexts = <<>>
    /\ panicked = FALSE
    /\ query = <<>>
    /\ scanned = <<>>
    /\ operands = <<>>
    /\ outcome = None
    /\ world = <<>>
    /\ compiled = None

\* group.dispatcher.next(rng)
DispatcherNextCall ==
    /\ ~panicked
    /\ Len(nexts) < MaxNextCalls
    /\ \E o \in DispatcherNext(response_groups[1].dispatcher) :
        /\ response_groups' = [response_groups EXCEPT ![1].dispatcher = o.d]
        /\ nexts' = Append(nexts, o.r)
        /\ emitted' = IF IsSome(o.r) THEN <<emitted[1] \cup {o.r[1]}>> ELSE emitted
        /\ panicked' = o.panic
    /\ UNCHANGED <<program, criteria, rules, encoder, character_props, world_props,
                   selected, response, calls, nsel, compiled, operands,
                   outcome, world,
                   query, scanned>>

DispatcherSpec == DispatcherInit /\ [][DispatcherNextCall]_vars

\* ---------------------------------------------------------------------------
\* Properties of one dispatcher (checked under DispatcherSpec)

TheDispatcher == response_groups[1].dispatcher

GroupSize == Len(response_groups[1].responses)

PositiveWeights(d) == \A k \in 1..Len(d.weights) : d.weights[k] > 0

\* C4: a Loop dispatcher over len >= 1 responses returns k mod len on its
\* k-th call (k = 0, 1, ...), never returns nothing, and keeps index < len.
C4_LoopCycles ==
    (TheDispatcher.kind = "Loop" /\ TheDispatcher.len >= 1) =>
        /\ \A k \in 1..Len(nexts) : nexts[k] = Some((k - 1) % TheDispatcher.len)
        /\ TheDispatcher.index < TheDispatcher.len

\* A Loop over three responses has been called four times and is back at 0.
C4_Witness ==
    /\ TheDispatcher.kind = "Loop"
    /\ TheDispatcher.len = 3
    /\ Len(nexts) = 4
    /\ nexts[4] = Some(0)

\* C5: a List dispatcher over len responses returns 0, 1, ..., len-1 on its
\* first len calls and nothing on every later call; index never exceeds len.
C5_ListRunsOnce ==
    TheDispatcher.kind = "List" =>
        /\ \A k \in 1..Len(nexts) :
              nexts[k] = IF k <= TheDispatcher.len THEN Some(k - 1) ELSE None
        /\ TheDispatcher.index <= TheDispatcher.len

\* A List over two responses has been called four times: two responses, then
\* nothing twice.
C5_Witness ==
    /\ TheDispatcher.kind = "List"
    /\ TheDispatcher.len = 2
    /\ Len(nexts) = 4
    /\ nexts[2] = Some(1)
    /\ nexts[4] = None

\* C6: a Shuffle dispatcher over len >= 2 responses with positive weights
\* uses each response once before repeating: between two emissions of a
\* response, every other response of the group is emitted.
C6_ShuffleUsesEachBeforeRepeating ==
    (/\ TheDispatcher.kind = "Shuffle"
     /\ GroupSize >= 2
     /\ PositiveWeights(TheDispatcher)) =>
        \A i, j \in 1..Len(nexts) :
            (i < j /\ nexts[i] = nexts[j] /\ IsSome(nexts[i])) =>
                \A other \in 0..(GroupSize - 1) :
                    other # nexts[i][1] =>
                        \E m \in (i + 1)..(j - 1) : nexts[m] = Some(other)

\* C7: a Shuffle dispatcher over len >= 2 responses with positive weights
\* removes each emitted index from the candidates and refills an emptied list
\* with the len-1 indices other than the one just emitted: the candidates are
\* never empty between calls, are distinct valid indices without the response
\* just emitted, `next` never returns nothing, and no response is emitted by
\* two consecutive calls.
C7_ShuffleNeverRepeatsAtOnce ==
    (/\ TheDispatcher.kind = "Shuffle"
     /\ GroupSize >= 2
     /\ PositiveWeights(TheDispatcher)) =>
        LET c == TheDispatcher.candidates
        IN /\ Len(c) >= 1
           /\ Len(c) <= GroupSize
           /\ \A k \in 1..Len(c) : c[k] \in 0..(GroupSize - 1)
           /\ \A k, m \in 1..Len(c) : c[k] = c[m] => k = m
           /\ \A k \in 1..Len(nexts) : IsSome(nexts[k])
           /\ \A k \in 1..(Len(nexts) - 1) : nexts[k] # nexts[k + 1]
           /\ Len(nexts) >= 1 => nexts[Len(nexts)][1] \notin SeqRange(c)
           /\ Len(nexts) >= GroupSize => Len(c) <= GroupSize - 1
           /\ (Len(nexts) >= GroupSize /\ (Len(nexts) - GroupSize) % (GroupSize - 1) = 0) =>
                 SeqRange(c) = (0..(GroupSize - 1)) \ {nexts[Len(nexts)][1]}

\* A Shuffle over three responses has just been refilled for the second time.
C7_Witness ==
    /\ TheDispatcher.kind = "Shuffle"
    /\ GroupSize = 3
    /\ PositiveWeights(TheDispatcher)
    /\ Len(nexts) = 5
    /\ Len(TheDispatcher.candidates) = 2

\* C8: on an empty response group `next` returns nothing and does not panic,
\* whatever the kind of the dispatcher.
C8_EmptyGroupReturnsNothing ==
    GroupSize = 0 =>
        /\ ~panicked
        /\ \A k \in 1..Len(nexts) : nexts[k] = None

\* ---------------------------------------------------------------------------
\* Properties of the engine (checked under Spec)

AllRuleIds ==
    {RuleId(key, i) : <<key, i>> \in
        UNION {{<<k, j>> : j \in 0..(Len(rules.partitions[k]) - 1)} :
                    k \in DOMAIN rules.partitions}}

\* The value of a variable in the first of the three stores that has it.
FirstBagValue(request_props, var) ==
    IF var \in DOMAIN request_props THEN Some(request_props[var])
    ELSE IF var \in DOMAIN character_props THEN Some(character_props[var])
    ELSE IF var \in DOMAIN world_props THEN Some(world_props[var])
    ELSE None

\* The query find_best_response builds for a request made in the current
\* state, and the encoder after building it.
Built(request_props) ==
    QueryBuild(<<request_props, character_props, world_props>>, encoder)

\* The f32 the query holds for a variable: the code of its first-bag value
\* under the encoder enc.
QueryCode(enc, request_props, var) ==
    LET value == FirstBagValue(request_props, var)
    IN IF IsSome(value) THEN Some(Encode(enc, value[1]).code) ELSE None

\* The list best_rules that find_best_matching_rule draws from.
BestRules(built) == FindBestMatchingRule(criteria, rules, built.query)

\* The partition under a key is selected for the query: the query has every
\* assignment of the key.
PartitionSelected(enc, request_props, key) ==
    \A k \in 1..Len(key) : QueryCode(enc, request_props, key[k][1]) = Some(key[k][2])

\* Every criterion of the rule's scan list holds of the query.
CriteriaMatch(enc, request_props, rule) ==
    \A k \in 1..Len(rule.criteria) :
        LET criterion == criteria[rule.criteria[k] + 1]
            code == QueryCode(enc, request_props, criterion.variable)
        IN /\ IsSome(code)
           /\ criterion.min <= code[1]
           /\ code[1] <= criterion.max

Candidates(enc, request_props) ==
    {id \in AllRuleIds :
        /\ PartitionSelected(enc, request_props, id.key)
        /\ CriteriaMatch(enc, request_props, GetRule(rules, id))}

MaximalCandidates(enc, request_props) ==
    LET candidates == Candidates(enc, request_props)
    IN {id \in candidates :
            \A other \in candidates : GetRule(rules, other).score <= GetRule(rules, id).score}

\* C1: when every rule scores >= 0, the rules find_best_matching_rule can
\* return for a query are exactly the rules of maximal score among those that
\* lie in a selected partition and whose scan-list criteria all match.
C1_BestRulesAreTheMaximalMatches ==
    (\A id \in AllRuleIds : GetRule(rules, id).score >= 0) =>
        \A request_props \in Requests :
            LET built == Built(request_props)
            IN SeqRange(BestRules(built)) = MaximalCandidates(built.encoder, request_props)

\* Some query has two matching rules of different score and one of equal
\* score in play: the lower one is passed over.
C1_Witness ==
    /\ \A id \in AllRuleIds : GetRule(rules, id).score >= 0
    /\ selected # None
    /\ \E request_props \in Requests :
        LET enc == Built(request_props).encoder
        IN /\ MaximalCandidates(enc, request_props) # {}
           /\ Candidates(enc, request_props) # MaximalCandidates(enc, request_props)

\* C2: a rule whose enabled flag is false is not selected by a later call.
C2_DisabledRuleIsSkipped ==
    [][\A id \in AllRuleIds :
            ~GetRule(rules, id).enabled => selected' # Some(id)]_vars

GroupIndex(name) ==
    (CHOOSE k \in 1..Len(Compiler(program).group_order) :
        Compiler(program).group_order[k] = name) - 1

CriterionIndex(name) ==
    (CHOOSE k \in 1..Len(Compiler(program).criteria_order) :
        Compiler(program).criteria_order[k] = name) - 1

Min(a, b) == IF a <= b THEN a ELSE b

\* The rule references one group, a Deplete group with positive weights that
\* no other rule references.
SingleDepleteRule(name) ==
    LET def == program.rules[name]
    IN /\ Len(def.response_groups) = 1
       /\ GroupDefs[def.response_groups[1]].delivery = "Deplete"
       /\ PositiveWeights(response_groups[GroupIndex(def.response_groups[1]) + 1].dispatcher)
       /\ \A other \in RuleNames \ {name} :
            def.response_groups[1] \notin SeqRange(program.rules[other].response_groups)

\* C3: for a rule with a single Deplete group of n responses with positive
\* weights, the first n calls that select the rule return n distinct
\* responses of the group and every later such call returns nothing.
C3_DepleteGivesEachResponseOnce ==
    \A name \in RuleNames :
        SingleDepleteRule(name) =>
            LET g == GroupIndex(program.rules[name].response_groups[1])
                n == Len(response_groups[g + 1].responses)
            IN /\ Cardinality(emitted[g + 1]) = Min(nsel[name], n)
               /\ (IsSome(selected) /\ GetRule(rules, selected[1]).name = name) =>
                    IF nsel[name] <= n
                    THEN IsSome(response) /\ response[1][1] = g
                    ELSE response = None

\* A rule with a single Deplete group of two responses was selected a third
\* time and returned nothing.
C3_Witness ==
    \E name \in RuleNames :
        /\ SingleDepleteRule(name)
        /\ Len(response_groups[GroupIndex(program.rules[name].response_groups[1]) + 1].responses) = 2
        /\ nsel[name] = 3
        /\ IsSome(selected)
        /\ GetRule(rules, selected[1]).name = name
        /\ response = None

Exhausted(d) ==
    \/ d.kind = "Deplete" /\ d.candidates = <<>>
    \/ d.kind = "List" /\ d.index = d.len

C9_State ==
    /\ \A g \in 1..Len(response_groups) :
        DisableRule(response_groups[g].dispatcher) = Exhausted(response_groups[g].dispatcher)
    /\ \A id \in AllRuleIds :
        (\A k \in 1..Len(GetRule(rules, id).response_groups) :
            response_groups[GetRule(rules, id).response_groups[k] + 1].dispatcher.kind
                \in {"Shuffle", "Random", "Loop"})
        => GetRule(rules, id).enabled

C9_Step ==
    \A id \in AllRuleIds :
        (GetRule(rules, id).enabled /\ ~GetRule(rules', id).enabled) =>
            /\ selected' = Some(id)
            /\ IsSome(response')
            /\ response'[1][1] \in SeqRange(GetRule(rules, id).response_groups)
            /\ response_groups'[response'[1][1] + 1].dispatcher.kind \in {"Deplete", "List"}
            /\ Exhausted(response_groups'[response'[1][1] + 1].dispatcher)
            /\ ~Exhausted(response_groups[response'[1][1] + 1].dispatcher)

\* C9: disable_rule is false for Shuffle, Random and Loop, true for Deplete
\* exactly when its candidates are empty and for List exactly when index is
\* len; a rule is disabled only by a call in which a Deplete or List group of
\* the rule emitted its last response, and a rule whose groups are all
\* Shuffle, Random or Loop stays enabled.
C9_DisableOnlyOnLastResponse == [](C9_State) /\ [][C9_Step]_vars

\* A rule has been disabled.
C9_Witness == \E id \in AllRuleIds : ~GetRule(rules, id).enabled

\* The criteria of a rule definition that are equalities on a partition
\* variable, as positions in the definition's list.
PartitionEqualities(name) ==
    {k \in 1..Len(program.rules[name].criteria) :
        LET c == CriteriaDefs[program.rules[name].criteria[k]]
        IN c.predicate.kind # "NumRange" /\ c.variable \in program.partition_variables}

\* C10: a rule with an equality criterion v == c on a partition variable is
\* selected only by a query whose first-bag value for v encodes to c, and the
\* criterion is not in the rule's scan list.
C10_PartitionEqualityHolds ==
    \A request_props \in Requests :
        LET built == Built(request_props)
        IN \A id \in SeqRange(BestRules(built)) :
            LET name == GetRule(rules, id).name
            IN \A k \in PartitionEqualities(name) :
                LET cname == program.rules[name].criteria[k]
                IN /\ QueryCode(built.encoder, request_props, CriteriaDefs[cname].variable)
                        = Some(criteria[CriterionIndex(cname) + 1].min)
                   /\ CriterionIndex(cname) \notin SeqRange(GetRule(rules, id).criteria)

\* A rule with an equality criterion on a partition variable was selected.
C10_Witness ==
    /\ IsSome(selected)
    /\ PartitionEqualities(GetRule(rules, selected[1]).name) # {}
    /\ GetRule(rules, selected[1]).criteria = <<>>

\* ---------------------------------------------------------------------------
\* One instruction on its own: the instruction loop of find_best_response is
\* run for a rule that carries a single instruction, on stores of any
\* content, again and again.

Instructions ==
    {Instruction(variable, global, operation) :
        variable \in {1, 2}, global \in BOOLEAN,
        operation \in {BoolSet(TRUE), BoolSet(FALSE), BoolToggle, NumSet(2),
                       NumAdd(1), NumAdd(2), StrSet("talk"), StrSet("new")}}


Stores ==
    UNION {[dom -> {Bool(TRUE), Bool(FALSE), Num(1), Str("talk")}] : dom \in SUBSET {1, 2}}

InstructionInit ==
    /\ program \in Instructions
    /\ character_props \in Stores
    /\ world_props \in Stores
    /\ encoder = EncoderDefault
    /\ criteria = <<>>
    /\ rules = [vars |-> <<>>, partitions |-> <<>>]
    /\ response_groups = <<>>
    /\ selected = None
    /\ response = None
    /\ calls = 0
    /\ nsel = [name \in RuleNames |-> 0]
    /\ emitted = <<>>
    /\ nexts = <<>>
    /\ panicked = FALSE
    /\ query = <<>>
    /\ scanned = <<>>
    /\ operands = <<>>
    /\ outcome = None
    /\ world = <<>>
    /\ compiled = None

\* The stores and the encoder after Query::build over the request and the two
\* stores, followed by the instruction loop of the selected rule.
InstructionLoop(request_props, instruction) ==
    ApplyInstructions(InstructionMap(<<instruction>>, 1, <<>>),
                      <<instruction.variable>>, 1,
                      [character |-> character_props, world |-> world_props,
                       encoder |-> QueryBuild(<<request_props, character_props,
                                                world_props>>, encoder).encoder])

\* let query = Query::build([request_props, charicter_props, world_props], ..);
\* for (var, (global, op)) in &rule.instructions { ... }
ApplyInstructionCall(request_props) ==
    /\ calls < MaxCalls
    /\ character_props' = InstructionLoop(request_props, program).character
    /\ world_props' = InstructionLoop(request_props, program).world
    /\ encoder' = InstructionLoop(request_props, program).encoder
    /\ calls' = calls + 1
    /\ UNCHANGED <<program, criteria, rules, response_groups, selected, response,
                   nsel, emitted, nexts, panicked, compiled, operands,
                   outcome, world,
                   query, scanned>>

InstructionSpec ==
    InstructionInit
        /\ [][\E request_props \in {<<>>, (3 :> Str("yell"))} :
                    ApplyInstructionCall(request_props)]_vars

\* ---------------------------------------------------------------------------
\* Properties of the instructions

\* The store an instruction targets, before and after a step.
TargetStore(global) == IF global THEN world_props ELSE character_props

TargetStoreAfter(global) == IF global THEN world_props' ELSE character_props'

\* C11: when the selected rule carries a StrSet(s) instruction for a variable,
\* after find_best_response the targeted store holds the variable as the
\* string s, and s has a code in the engine's encoder.
C11_StrSetStoresTheString ==
    (IsSome(selected) /\ ~panicked) =>
        \A var \in DOMAIN GetRule(rules, selected[1]).instructions :
            LET ins == GetRule(rules, selected[1]).instructions[var]
            IN ins.op.kind = "StrSet" =>
                /\ PropsGetValue(TargetStore(ins.global), var) = Some(Str(ins.op.s))
                /\ HasCode(encoder, ins.op.s)

\* What the claim says an operation leaves in a variable that held `before`
\* (None when the variable was absent); StrSet is not part of the claim.
Expected(op, before) ==
    CASE op.kind = "BoolToggle" ->
            Bool(IF IsSome(before) /\ before[1].t = "Bool" THEN ~before[1].b ELSE TRUE)
      [] op.kind = "NumAdd" ->
            Num(IF IsSome(before) /\ before[1].t = "Num"
                THEN before[1].n + op.n ELSE op.n)
      [] op.kind = "BoolSet" -> Bool(op.b)
      [] OTHER -> Num(op.n)

\* C12: BoolToggle turns Bool(b) into Bool(~b) and an absent, numeric or
\* string variable into Bool(TRUE); NumAdd(n) turns Num(v) into Num(v + n)
\* and an absent, boolean or string variable into Num(n); BoolSet(b) and
\* NumSet(n) overwrite the variable with Bool(b) and Num(n).
C12_OperationsSetTheirValue ==
    [][program.operation.kind # "StrSet" =>
            PropsGetValue(TargetStoreAfter(program.global), program.variable)
                = Some(Expected(program.operation,
                        PropsGetValue(TargetStore(program.global), program.variable)))]_vars

\* A BoolToggle has turned a string into TRUE and then TRUE into FALSE.
C12_Witness ==
    /\ program.operation.kind = "BoolToggle"
    /\ calls = 2
    /\ PropsGetValue(TargetStore(program.global), program.variable) = Some(Bool(FALSE))

\* The instruction map of the rule the step selects.
SelectedInstructions == GetRule(rules, selected'[1]).instructions

\* The step leaves the variable as it was in the character store, in the
\* world store.
CharacterKeeps(var) ==
    PropsGetValue(character_props', var) = PropsGetValue(character_props, var)

WorldKeeps(var) ==
    PropsGetValue(world_props', var) = PropsGetValue(world_props, var)

\* What an instruction leaves in its variable: for StrSet some value, for the
\* other operations the value of C12.
Applied(ins, var) ==
    IF ins.op.kind = "StrSet"
    THEN IsSome(PropsGetValue(TargetStoreAfter(ins.global), var))
    ELSE PropsGetValue(TargetStoreAfter(ins.global), var)
            = Some(Expected(ins.op, PropsGetValue(TargetStore(ins.global), var)))

C13_Step ==
    IF IsSome(selected')
    THEN \A var \in Vars :
            IF var \in DOMAIN SelectedInstructions
            THEN /\ Applied(SelectedInstructions[var], var)
                 /\ IF SelectedInstructions[var].global
                    THEN CharacterKeeps(var)
                    ELSE WorldKeeps(var)
            ELSE CharacterKeeps(var) /\ WorldKeeps(var)
    ELSE character_props' = character_props /\ world_props' = world_props

\* C13: every instruction of the selected rule changes only its own variable
\* in one store, the world store when it is global and the character store
\* otherwise; the other store's value for the variable and every variable no
\* instruction names are unchanged; a call that selects no rule changes no
\* store; the instructions are applied whatever the dispatchers do afterwards,
\* a panic in `next` included.
C13_InstructionsChangeOnlyTheirVariable == [][C13_Step]_vars

\* A rule with instructions on each of the two stores was selected while both
\* stores hold variable 1 with different values.
C13_Witness ==
    /\ IsSome(selected)
    /\ \E v, w \in DOMAIN GetRule(rules, selected[1]).instructions :
        /\ GetRule(rules, selected[1]).instructions[v].global
        /\ ~GetRule(rules, selected[1]).instructions[w].global
    /\ 1 \in DOMAIN character_props
    /\ 1 \in DOMAIN world_props
    /\ character_props[1] # world_props[1]


\* ---------------------------------------------------------------------------
\* The script compiler on its own (trill_script ScriptCompiler::compile over
\* ResponseEngineCompiler::finish)

\* The criteria a script may define: two types on variable 1 and three
\* criteria on variable 2.
ScriptCriteria ==
    [name \in {"Flag", "Hp1", "Hurt", "Low", "Talk"} |->
        CASE name = "Flag" -> Criterion(1, BoolEqual(TRUE), 1)
          [] name = "Hp1" -> Criterion(2, NumEqual(1), 1)
          [] name = "Hurt" -> Criterion(2, NumRange(None, Some(0)), 1)
          [] name = "Low" -> Criterion(2, NumRange(None, Some(1)), 1)
          [] OTHER -> Criterion(1, StrEqual("talk"), 2)]

\* The response groups a script may define; GB has a weight that is no number.
ScriptGroups ==
    [name \in {"GB", "GD"} |->
        IF name = "GB"
        THEN ResponseGroup("Random", <<Response(Some("x"), "b0"), Response(None, "b1")>>)
        ELSE ResponseGroup("Deplete", <<Response(None, "d0"), Response(None, "d1")>>)]

\* The rules a script may define.  GM is a group no script defines.
ScriptRules ==
    <<Rule(<<"Talk">>, <<"GD">>, <<>>),
      Rule(<<"Hp1", "Low", "Hurt">>, <<"GD">>, <<Instruction(2, FALSE, NumAdd(1))>>),
      Rule(<<"Hp1", "Low">>, <<"GM">>, <<Instruction(2, FALSE, BoolSet(TRUE))>>),
      Rule(<<"Talk", "Flag", "Hp1">>, <<"GB">>, <<>>),
      Rule(<<>>, <<"GD">>, <<Instruction(3, FALSE, StrSet("talk")),
                             Instruction(3, TRUE, BoolToggle)>>),
      Rule(<<"Hp1", "Hp1">>, <<"GD">>, <<>>),
      Rule(<<"Low", "Talk">>, <<"GD">>, <<>>),
      Rule(<<"Hp1", "Talk">>, <<"GD">>, <<>>)>>

\* A script: the partition variables it declares, the criteria and groups it
\* defines, its two rules, the order in which each of the compiler's three
\* hash maps is iterated and the modules whose parse failed (a script has the
\* modules 0 and 1).
Script(pv, cs, gs, a, b, criteria_order, group_order, rule_order, pe) ==
    [partition_variables |-> pv,
     criteria |-> [name \in cs |-> ScriptCriteria[name]],
     response_groups |-> [name \in gs |-> ScriptGroups[name]],
     rules |-> [name \in RuleNames |-> IF name = "R1" THEN ScriptRules[a] ELSE ScriptRules[b]],
     criteria_order |-> criteria_order,
     group_order |-> group_order,
     rule_order |-> rule_order,
     parse_errors |-> pe]

\* The scripts: every module parsed, two partition variables declared and
\* the definitions vary (up to three of the criteria are defined), or some
\* module failed to parse (compile then reads nothing else of the script).
Scripts ==
    UNION {{Script({2, 3}, cs, gs, p[1], p[2], criteria_order, group_order, rule_order, <<>>) :
                criteria_order \in IterationOrders(cs),
                group_order \in IterationOrders(gs),
                rule_order \in IterationOrders(RuleNames),
                p \in {q \in (1..Len(ScriptRules)) \X (1..Len(ScriptRules)) : q[1] <= q[2]}} :
            <<cs, gs>> \in {c \in SUBSET DOMAIN ScriptCriteria : Cardinality(c) <= 3}
                                \X {{"GD"}, {"GB", "GD"}}}
    \cup {Script({2}, {"Talk"}, {"GD"}, 1, 1, <<"Talk">>, <<"GD">>, rule_order, pe) :
            rule_order \in IterationOrders(RuleNames),
            pe \in {<<0>>, <<1>>, <<0, 1>>}}

\* finish with an engine returned whatever the report holds.
FinishReturnsAlways(f) ==
    {[engine |-> Some([criteria |-> f.criteria,
                       rules |-> [vars |-> partition_variables, partitions |-> <<>>],
                       response_groups |-> f.response_groups,
                       encoder |-> f.encoder]),
      errors |-> f.errors \o type_errors] :
        partition_variables \in f.vars, type_errors \in f.type_errors}

\* What finish returns from its compiled parts f: the engine, if any, and the
\* report's errors.
FinishReturns(f) ==
    IF f.errors = <<>> /\ f.type_errors = {<<>>}
    THEN {[engine |-> Some(e), errors |-> <<>>] : e \in SortedEngines(f)}
    ELSE {[engine |-> None, errors |-> f.errors \o type_errors] :
                type_errors \in f.type_errors}

\* ScriptCompiler::compile after the parse of every module: no engine and no
\* call of finish when a module failed to parse, otherwise what finish
\* returns.
CompileReturns(script) ==
    IF script.parse_errors # <<>>
    THEN {[engine |-> None,
           report |-> [parse_errors |-> script.parse_errors, compile_errors |-> <<>>]]}
    ELSE {[engine |-> r.engine,
           report |-> [parse_errors |-> <<>>, compile_errors |-> r.errors]] :
                r \in FinishReturns(Finish(script))}

CompilerInit ==
    /\ program \in Scripts
    /\ compiled = None
    /\ criteria = <<>>
    /\ rules = <<>>
    /\ response_groups = <<>>
    /\ encoder = EncoderDefault
    /\ character_props = <<>>
    /\ world_props = <<>>
    /\ selected = None
    /\ response = None
    /\ calls = 0
    /\ nsel = [name \in RuleNames |-> 0]
    /\ emitted = <<>>
    /\ nexts = <<>>
    /\ panicked = FALSE
    /\ query = <<>>
    /\ scanned = <<>>
    /\ operands = <<>>
    /\ outcome = None
    /\ world = <<>>

\* One call of ScriptCompiler::compile.
Compile ==
    /\ compiled = None
    /\ \E r \in CompileReturns(program) : compiled' = Some(r)
    /\ calls' = calls + 1
    /\ UNCHANGED <<program, criteria, rules, response_groups, encoder, character_props,
                   world_props, selected, response, nsel, emitted, nexts, panicked,
                   operands, outcome, world,
                   query, scanned>>

CompilerSpec == CompilerInit /\ [][Compile]_vars

\* C14: compile returns an engine exactly when its report has neither a parse
\* error nor a compile error, and never when a module failed to parse.
C14_EngineIffNoErrors ==
    IsSome(compiled) =>
        /\ IsSome(compiled[1].engine) <=>
                /\ compiled[1].report.parse_errors = <<>>
                /\ compiled[1].report.compile_errors = <<>>
        /\ program.parse_errors # <<>> => compiled[1].engine = None
        /\ compiled[1].report.parse_errors = program.parse_errors

\* An engine was returned by one compile and refused by another for a
\* compile error alone.
C14_Witness ==
    /\ IsSome(compiled)
    /\ program.parse_errors = <<>>
    /\ compiled[1].engine = None
    /\ compiled[1].report.compile_errors # <<>>


\* The usages of a variable in a script: every defined criterion on it and
\* every instruction on it of every rule, each with the type it implies.
CriterionUsages(v) ==
    {<<"Criterion", n, 0, PredicateType(program.criteria[n].predicate)>> :
        n \in {c \in DOMAIN program.criteria : program.criteria[c].variable = v}}

InstructionUsageSet(v) ==
    UNION {{<<"Rule", r, k, OperationType(program.rules[r].instructions[k].operation)>> :
                k \in {j \in DOMAIN program.rules[r].instructions :
                            program.rules[r].instructions[j].variable = v}} :
           r \in DOMAIN program.rules}

UsageTypes(v) == {u[4] : u \in CriterionUsages(v) \cup InstructionUsageSet(v)}

\* The positions of the IndeterminateVariableType diagnostics for a variable.
TypeDiagnostics(v) ==
    {k \in DOMAIN compiled[1].report.compile_errors :
        /\ compiled[1].report.compile_errors[k].error = "IndeterminateVariableType"
        /\ compiled[1].report.compile_errors[k].variable = v}

\* C15: a variable gets an IndeterminateVariableType diagnostic exactly when
\* its usages over all criteria and all rule instructions have two different
\* types; there is one diagnostic for the variable, it lists every usage, and
\* a returned engine has one type for each variable.
C15_OneTypeDiagnosticPerVariable ==
    (IsSome(compiled) /\ program.parse_errors = <<>>) =>
        \A v \in Vars :
            /\ Cardinality(TypeDiagnostics(v)) =
                    IF Cardinality(UsageTypes(v)) >= 2 THEN 1 ELSE 0
            /\ \A k \in TypeDiagnostics(v) :
                LET usages == compiled[1].report.compile_errors[k].usages
                IN /\ Len(usages) =
                        Cardinality(CriterionUsages(v)) + Cardinality(InstructionUsageSet(v))
                   /\ {<<usages[j].location[1], usages[j].location[2],
                         usages[j].infered_type>> : j \in DOMAIN usages} =
                      {<<u[1], u[2], u[4]>> : u \in CriterionUsages(v) \cup InstructionUsageSet(v)}
            /\ IsSome(compiled[1].engine) => Cardinality(UsageTypes(v)) <= 1

\* A variable whose first two usages agree and a later one differs got its
\* diagnostic, with three usages or more listed.
C15_Witness ==
    /\ IsSome(compiled)
    /\ program.parse_errors = <<>>
    /\ \E v \in Vars : \E k \in TypeDiagnostics(v) :
        LET usages == compiled[1].report.compile_errors[k].usages
        IN /\ Len(usages) >= 3
           /\ usages[1].infered_type = usages[2].infered_type

\* The positions of the RepeatedVariable diagnostics of a rule for a variable.
RepeatDiagnostics(r, v) ==
    {k \in DOMAIN compiled[1].report.compile_errors :
        /\ compiled[1].report.compile_errors[k].error = "RepeatedVariable"
        /\ compiled[1].report.compile_errors[k].in = r
        /\ program.criteria[compiled[1].report.compile_errors[k].name].variable = v}

\* The positions of a rule's criteria list that name a defined criterion on
\* the variable.
CriteriaOn(r, v) ==
    {k \in DOMAIN program.rules[r].criteria :
        /\ program.rules[r].criteria[k] \in DOMAIN program.criteria
        /\ program.criteria[program.rules[r].criteria[k]].variable = v}

\* C16: a rule that lists two or more criteria on one variable gets exactly
\* one RepeatedVariable diagnostic for that rule and variable, and a rule
\* whose criteria are on pairwise distinct variables gets none.
C16_OneRepeatDiagnosticPerRuleVariable ==
    (IsSome(compiled) /\ program.parse_errors = <<>>) =>
        \A r \in DOMAIN program.rules : \A v \in Vars :
            Cardinality(RepeatDiagnostics(r, v)) =
                IF Cardinality(CriteriaOn(r, v)) >= 2 THEN 1 ELSE 0

\* A rule with three criteria on one variable was compiled and got its one
\* diagnostic.
C16_Witness ==
    /\ IsSome(compiled)
    /\ program.parse_errors = <<>>
    /\ \E r \in DOMAIN program.rules : \E v \in Vars :
        /\ Cardinality(CriteriaOn(r, v)) = 3
        /\ Cardinality(RepeatDiagnostics(r, v)) = 1


\* C17: every rule of a compiled engine has a score of at least 0.  The
\* compiler adds up the weights as given, and a criterion may carry a
\* negative weight, so a rule of an engine can have a negative score.
C17_ScoresAreNonNegative ==
    \A key \in DOMAIN rules.partitions :
        \A i \in 1..Len(rules.partitions[key]) : rules.partitions[key][i].score >= 0


\* ---------------------------------------------------------------------------
\* Value subtraction (bevy_mod_props props/mod.rs)

MaxNum == 2

\* The f32 operands, on the model's integer scale.
Floats == (0 - MaxNum)..MaxNum

\* The Value operands.
Values == {Bool(TRUE), Bool(FALSE), Str("talk")} \cup {Num(n) : n \in Floats}

\* impl Sub<f32> for Value
ValueSubF32(lhs, rhs) ==
    IF lhs.t = "Num" THEN Num(lhs.n - rhs) ELSE Num(0 - rhs)

\* impl Sub<Value> for f32
F32SubValue(lhs, rhs) ==
    IF rhs.t = "Num" THEN Num(lhs - rhs.n) ELSE Num(0 - lhs)

\* impl Sub<Value> for Value
ValueSubValue(lhs, rhs) ==
    CASE lhs.t = "Num" /\ rhs.t = "Num" -> Num(lhs.n - rhs.n)
      [] lhs.t = "Num" /\ rhs.t # "Num" -> Num(lhs.n)
      [] lhs.t # "Num" /\ rhs.t = "Num" -> Num(0 - rhs.n)
      [] OTHER -> Num(0)

\* The three forms of subtraction, each with its operands: `value - float`,
\* `float - value` and `value - other`.  The operand a form does not have is
\* zero.
ValueInit ==
    /\ operands \in
        {[form |-> "ValueSubF32", value |-> v, float |-> f, other |-> Num(0)] :
            v \in Values, f \in Floats}
        \cup {[form |-> "F32SubValue", value |-> v, float |-> f, other |-> Num(0)] :
            v \in Values, f \in Floats}
        \cup {[form |-> "ValueSubValue", value |-> v, float |-> 0, other |-> w] :
            v \in Values, w \in Values}
    /\ outcome = None
    /\ program = <<>>
    /\ compiled = None
    /\ criteria = <<>>
    /\ rules = <<>>
    /\ response_groups = <<>>
    /\ encoder = EncoderDefault
    /\ character_props = <<>>
    /\ world_props = <<>>
    /\ selected = None
    /\ response = None
    /\ calls = 0
    /\ nsel = [name \in RuleNames |-> 0]
    /\ emitted = <<>>
    /\ nexts = <<>>
    /\ panicked = FALSE
    /\ query = <<>>
    /\ scanned = <<>>
    /\ world = <<>>

\* One evaluation of a subtraction.
Subtract ==
    /\ outcome = None
    /\ outcome' = Some(CASE operands.form = "ValueSubF32" ->
                                ValueSubF32(operands.value, operands.float)
                         [] operands.form = "F32SubValue" ->
                                F32SubValue(operands.float, operands.value)
                         [] OTHER -> ValueSubValue(operands.value, operands.other))
    /\ UNCHANGED <<program, criteria, rules, response_groups, encoder, character_props,
                   world_props, selected, response, calls, nsel, emitted, nexts,
                   panicked, compiled, operands, world,
                   query, scanned>>

ValueSpec == ValueInit /\ [][Subtract]_vars

\* The number a Value stands for: its own when it holds one, zero when it
\* holds a boolean or a string.
AsNumber(x) == IF x.t = "Num" THEN x.n ELSE 0

\* C18: in each form of subtraction the result is the Value::Num of the
\* difference of the operands' numbers, an operand without a number counting
\* as zero.
C18_NonNumbersSubtractAsZero ==
    IsSome(outcome) =>
        outcome[1] = CASE operands.form = "ValueSubF32" ->
                            Num(AsNumber(operands.value) - operands.float)
                       [] operands.form = "F32SubValue" ->
                            Num(operands.float - AsNumber(operands.value))
                       [] OTHER ->
                            Num(AsNumber(operands.value) - AsNumber(operands.other))


\* ---------------------------------------------------------------------------
\* The entity registry (bevy_mod_props registry/mod.rs, registry/ext.rs)
\*
\* The world holds a fixed set of spawned entities.  Each insertion or removal
\* of a component is one operation of the ECS: it runs the component's hooks,
\* which act on the registry at once when the Registry resource exists and
\* queue a command otherwise, and it then applies the queued commands.
\* set_name and set_class through EntityCommands do not act at once: they add
\* the insertion to a command buffer, which is applied at a later flush.

NEntities == 3

\* The most insertions the command buffer holds between two flushes.
MaxQueued == 2

Entities == 1..NEntities

Names == {"gimli", "legolas"}

\* Registry::default
RegistryDefault == [named_entities |-> <<>>, entity_classes |-> <<>>, reigrations |-> <<>>]

\* EntityRegistration::default
RegistrationDefault == [name |-> None, class |-> None]

\* insert of a key into a map
MapInsert(m, k, v) == [x \in DOMAIN m \cup {k} |-> IF x = k THEN v ELSE m[x]]

\* remove of a key from a map
MapRemove(m, k) == [x \in DOMAIN m \ {k} |-> m[x]]

\* World::get_resource_or_init::<Registry>
GetResourceOrInit(w) ==
    IF IsSome(w.registry) THEN w ELSE [w EXCEPT !.registry = Some(RegistryDefault)]

\* The body of Identity::on_insert on a world whose registry exists.  A name
\* in use is refused: the removal of the component is queued and NameTaken
\* goes to the world's error handler, which panics or logs.  A free name is
\* mapped to the entity and written to its registration, which panics when
\* the entity has none.
IdentityRegister(w, name, entity) ==
    IF name \in DOMAIN w.registry[1].named_entities
    THEN [w EXCEPT
            !.queue = Append(@, [kind |-> "RemoveIdentity", entity |-> entity, name |-> name]),
            !.name_taken = Some([name |-> name,
                                 owner |-> w.registry[1].named_entities[name],
                                 requester |-> entity]),
            !.panicked = w.error_handler = "panic"]
    ELSE [w EXCEPT
            !.registry[1].named_entities = MapInsert(@, name, entity),
            !.registry[1].reigrations = IF entity \in DOMAIN @
                                        THEN [@ EXCEPT ![entity].name = Some(name)]
                                        ELSE @,
            !.panicked = entity \notin DOMAIN w.registry[1].reigrations]

\* The body of Identity::on_replace on a world whose registry exists.
IdentityUnregister(w, name, entity) ==
    [w EXCEPT
        !.registry[1].reigrations = IF entity \in DOMAIN @
                                    THEN [@ EXCEPT ![entity].name = None]
                                    ELSE @,
        !.registry[1].named_entities = IF name \in DOMAIN @ /\ @[name] = entity
                                       THEN MapRemove(@, name)
                                       ELSE @]

\* The body of Class::on_insert on a world whose registry exists.
ClassRegister(w, class, entity) ==
    [w EXCEPT
        !.registry[1].reigrations =
            MapInsert(@, entity,
                [(IF entity \in DOMAIN @ THEN @[entity] ELSE RegistrationDefault)
                    EXCEPT !.class = Some(class)]),
        !.registry[1].entity_classes =
            MapInsert(@, class, (IF class \in DOMAIN @ THEN @[class] ELSE {}) \cup {entity})]

\* The body of Class::on_replace on a world whose registry exists; it panics
\* when the entity has no registration.
ClassUnregister(w, class, entity) ==
    IF entity \notin DOMAIN w.registry[1].reigrations
    THEN [w EXCEPT !.panicked = TRUE]
    ELSE [w EXCEPT
            !.registry[1].reigrations[entity].class = None,
            !.registry[1].entity_classes =
                MapInsert(@, class, (IF class \in DOMAIN @ THEN @[class] ELSE {}) \ {entity})]

\* Identity::on_insert
IdentityOnInsert(w, entity) ==
    IF IsSome(w.registry)
    THEN IdentityRegister(w, w.identity[entity][1], entity)
    ELSE [w EXCEPT !.queue = Append(@, [kind |-> "IdentityInsert", entity |-> entity,
                                        name |-> w.identity[entity][1]])]

\* Identity::on_replace
IdentityOnReplace(w, entity) ==
    IF IsSome(w.registry)
    THEN IdentityUnregister(w, w.identity[entity][1], entity)
    ELSE [w EXCEPT !.queue = Append(@, [kind |-> "IdentityReplace", entity |-> entity,
                                        name |-> w.identity[entity][1]])]

\* Class::on_insert; no hook runs once the operation panicked.
ClassOnInsert(w, entity) ==
    IF w.panicked
    THEN w
    ELSE IF IsSome(w.registry)
         THEN ClassRegister(w, w.class[entity][1], entity)
         ELSE [w EXCEPT !.queue = Append(@, [kind |-> "ClassInsert", entity |-> entity,
                                             name |-> w.class[entity][1]])]

\* Class::on_replace
ClassOnReplace(w, entity) ==
    IF IsSome(w.registry)
    THEN ClassUnregister(w, w.class[entity][1], entity)
    ELSE [w EXCEPT !.queue = Append(@, [kind |-> "ClassReplace", entity |-> entity,
                                        name |-> w.class[entity][1]])]

\* The removal of the Identity component of an entity: its on_replace hook,
\* then the component is gone.
RemoveIdentityFrom(w, entity) ==
    IF IsSome(w.identity[entity])
    THEN [IdentityOnReplace(w, entity) EXCEPT !.identity[entity] = None]
    ELSE w

\* One queued command applied to the world.  The closures the hooks queue
\* first get or create the registry.
ApplyCommand(w, cmd) ==
    CASE cmd.kind = "RemoveIdentity" -> RemoveIdentityFrom(w, cmd.entity)
      [] cmd.kind = "IdentityInsert" ->
            IdentityRegister(GetResourceOrInit(w), cmd.name, cmd.entity)
      [] cmd.kind = "IdentityReplace" ->
            IdentityUnregister(GetResourceOrInit(w), cmd.name, cmd.entity)
      [] cmd.kind = "ClassInsert" ->
            ClassRegister(GetResourceOrInit(w), cmd.name, cmd.entity)
      [] OTHER ->
            ClassUnregister(GetResourceOrInit(w), cmd.name, cmd.entity)

\* The flush at the end of an operation: the queued commands are applied in
\* order, those they queue included, until none is left or one panics.
RECURSIVE Flush(_)
Flush(w) ==
    IF w.panicked \/ w.queue = <<>>
    THEN w
    ELSE Flush(ApplyCommand([w EXCEPT !.queue = Tail(@)], Head(w.queue)))

\* EntityWorldMut::insert(Identity(name)): on_replace for a component the
\* entity already has, the write, on_insert, the flush.
InsertIdentity(w, entity, name) ==
    Flush(IdentityOnInsert(
        [(IF IsSome(w.identity[entity]) THEN IdentityOnReplace(w, entity) ELSE w)
            EXCEPT !.identity[entity] = Some(name)],
        entity))

\* EntityWorldMut::insert(Class(class))
InsertClass(w, entity, class) ==
    Flush(ClassOnInsert(
        [(IF IsSome(w.class[entity]) THEN ClassOnReplace(w, entity) ELSE w)
            EXCEPT !.class[entity] = Some(class)],
        entity))

\* The command buffer applied to the world: every insertion in the order it
\* was queued, each one as the insertion on EntityWorldMut with its own flush,
\* until none is left or one panics.
RECURSIVE CommandsApply(_)
CommandsApply(w) ==
    IF w.panicked \/ w.commands = <<>>
    THEN w
    ELSE LET cmd == Head(w.commands)
             rest == [w EXCEPT !.commands = Tail(@), !.name_taken = None]
         IN CommandsApply(IF cmd.kind = "Identity"
                          THEN InsertIdentity(rest, cmd.entity, cmd.name)
                          ELSE InsertClass(rest, cmd.entity, cmd.name))

\* The world before the first operation: the entities have no component, the
\* Registry resource exists or not, the error handler panics or logs, and the
\* command buffer is empty.  name_taken is the NameTaken error of the last
\* insertion, if any.
RegistryInit ==
    /\ world \in {[identity |-> [e \in Entities |-> None],
                   class |-> [e \in Entities |-> None],
                   registry |-> registry,
                   error_handler |-> handler,
                   queue |-> <<>>,
                   commands |-> <<>>,
                   name_taken |-> None,
                   panicked |-> FALSE] :
                        registry \in {None, Some(RegistryDefault)},
                        handler \in {"panic", "warn"}}
    /\ program = <<>>
    /\ compiled = None
    /\ criteria = <<>>
    /\ rules = <<>>
    /\ response_groups = <<>>
    /\ encoder = EncoderDefault
    /\ character_props = <<>>
    /\ world_props = <<>>
    /\ selected = None
    /\ response = None
    /\ calls = 0
    /\ nsel = [name \in RuleNames |-> 0]
    /\ emitted = <<>>
    /\ nexts = <<>>
    /\ panicked = FALSE
    /\ query = <<>>
    /\ scanned = <<>>
    /\ operands = <<>>
    /\ outcome = None

\* world.entity_mut(entity).set_name(name)
SetName(entity, name) ==
    /\ ~panicked
    /\ world' = InsertIdentity([world EXCEPT !.name_taken = None], entity, name)
    /\ panicked' = world'.panicked
    /\ UNCHANGED <<program, criteria, rules, response_groups, encoder, character_props,
                   world_props, selected, response, calls, nsel, emitted, nexts,
                   compiled, operands, outcome,
                   query, scanned>>

\* world.entity_mut(entity).set_class(class)
SetClass(entity, class) ==
    /\ ~panicked
    /\ world' = InsertClass([world EXCEPT !.name_taken = None], entity, class)
    /\ panicked' = world'.panicked
    /\ UNCHANGED <<program, criteria, rules, response_groups, encoder, character_props,
                   world_props, selected, response, calls, nsel, emitted, nexts,
                   compiled, operands, outcome,
                   query, scanned>>

\* world.entity_mut(entity).remove::<Identity>()
RemoveIdentity(entity) ==
    /\ ~panicked
    /\ IsSome(world.identity[entity])
    /\ world' = Flush(RemoveIdentityFrom([world EXCEPT !.name_taken = None], entity))
    /\ panicked' = world'.panicked
    /\ UNCHANGED <<program, criteria, rules, response_groups, encoder, character_props,
                   world_props, selected, response, calls, nsel, emitted, nexts,
                   compiled, operands, outcome,
                   query, scanned>>

\* world.entity_mut(entity).remove::<Class>(): the on_replace hook, then the
\* component is gone, then the flush.
RemoveClass(entity) ==
    /\ ~panicked
    /\ IsSome(world.class[entity])
    /\ world' = Flush([ClassOnReplace([world EXCEPT !.name_taken = None], entity)
                            EXCEPT !.class[entity] = None])
    /\ panicked' = world'.panicked
    /\ UNCHANGED <<program, criteria, rules, response_groups, encoder, character_props,
                   world_props, selected, response, calls, nsel, emitted, nexts,
                   compiled, operands, outcome,
                   query, scanned>>

\* commands.entity(entity).set_name(name) for kind "Identity" and
\* commands.entity(entity).set_class(name) for kind "Class": the insertion
\* is added to the command buffer and nothing else happens.
CommandsInsert(kind, entity, name) ==
    /\ ~panicked
    /\ Len(world.commands) < MaxQueued
    /\ world' = [world EXCEPT
                    !.commands = Append(@, [kind |-> kind, entity |-> entity,
                                            name |-> name])]
    /\ UNCHANGED <<program, criteria, rules, response_groups, encoder, character_props,
                   world_props, selected, response, calls, nsel, emitted, nexts, panicked,
                   compiled, operands, outcome,
                   query, scanned>>

\* The flush that applies the command buffer.
ApplyDeferred ==
    /\ ~panicked
    /\ world.commands # <<>>
    /\ world' = CommandsApply(world)
    /\ panicked' = world'.panicked
    /\ UNCHANGED <<program, criteria, rules, response_groups, encoder, character_props,
                   world_props, selected, response, calls, nsel, emitted, nexts,
                   compiled, operands, outcome,
                   query, scanned>>

RegistryNext ==
    \/ \E entity \in Entities : \E name \in Names : SetName(entity, name)
    \/ \E entity \in Entities : SetClass(entity, "party_member")
    \/ \E entity \in Entities : RemoveIdentity(entity)
    \/ \E entity \in Entities : RemoveClass(entity)
    \/ \E entity \in Entities : \E name \in Names : CommandsInsert("Identity", entity, name)
    \/ \E entity \in Entities : CommandsInsert("Class", entity, "party_member")
    \/ ApplyDeferred

RegistrySpec == RegistryInit /\ [][RegistryNext]_vars

\* Registry::lookup_name through the world: nothing without the resource.
LookupName(w, name) ==
    IF IsSome(w.registry) /\ name \in DOMAIN w.registry[1].named_entities
    THEN Some(w.registry[1].named_entities[name])
    ELSE None

\* Registry::lookup_entity through the world: the empty registration for an
\* entity that has none.
LookupEntity(w, entity) ==
    IF IsSome(w.registry) /\ entity \in DOMAIN w.registry[1].reigrations
    THEN w.registry[1].reigrations[entity]
    ELSE RegistrationDefault

\* No two entities are registered under one name: the registrations carry
\* pairwise different names, the entity a name maps to holds that name, and
\* the Identity components are pairwise different.
UniqueNames(w) ==
    /\ IsSome(w.registry) =>
        /\ \A e1 \in DOMAIN w.registry[1].reigrations :
             \A e2 \in DOMAIN w.registry[1].reigrations \ {e1} :
                IsSome(w.registry[1].reigrations[e1].name) =>
                    w.registry[1].reigrations[e1].name # w.registry[1].reigrations[e2].name
        /\ \A n \in DOMAIN w.registry[1].named_entities :
                w.identity[w.registry[1].named_entities[n]] = Some(n)
    /\ \A e1 \in Entities : \A e2 \in Entities \ {e1} :
            IsSome(w.identity[e1]) => w.identity[e1] # w.identity[e2]

\* The name is mapped to an entity other than the one given.
OwnedByAnother(w, name, entity) ==
    IsSome(LookupName(w, name)) /\ LookupName(w, name) # Some(entity)

\* A set_name step with a name another entity owns: the owner keeps its
\* mapping, its registration and its component, NameTaken names the owner and
\* the requester, and the requester has no Identity.
Rejected(entity, name) ==
    LET owner == LookupName(world, name)[1]
    IN /\ LookupName(world', name) = Some(owner)
       /\ LookupEntity(world', owner) = LookupEntity(world, owner)
       /\ world'.identity[owner] = world.identity[owner]
       /\ world'.name_taken = Some([name |-> name, owner |-> owner, requester |-> entity])
       /\ world'.identity[entity] = None

\* The insertion the command buffer holds when it holds exactly one.
Queued == world.commands[1]

C19_Step ==
    /\ (world'.commands = world.commands /\ world'.class = world.class) =>
        \A entity \in Entities : \A name \in Names :
            (OwnedByAnother(world, name, entity) /\ SetName(entity, name)) =>
                Rejected(entity, name)
    /\ (/\ Len(world.commands) = 1
        /\ Queued.kind = "Identity"
        /\ OwnedByAnother(world, Queued.name, Queued.entity)
        /\ ApplyDeferred) =>
            Rejected(Queued.entity, Queued.name)

\* C19: after every insertion, replacement and removal of an Identity no two
\* entities are registered under one name, and an insertion of a name that
\* another entity owns leaves the owner's mapping and registration as they
\* were and takes the Identity off the requester, whose on_replace does not
\* delete the owner's mapping; the same holds of an insertion that was queued
\* in the command buffer and is applied by a flush.
C19_NamesStayUnique == [](UniqueNames(world)) /\ [][C19_Step]_vars

\* The name is held by, or mapped to, an entity other than the one given.
UsedByAnother(w, name, entity) ==
    \E other \in Entities \ {entity} :
        w.identity[other] = Some(name) \/ LookupName(w, name) = Some(other)

C20_Step ==
    \A entity \in Entities : \A name \in Names :
        (SetName(entity, name) /\ ~UsedByAnother(world, name, entity)) =>
            /\ LookupName(world', name) = Some(entity)
            /\ LookupEntity(world', entity).name = Some(name)

\* C20: after set_name(n) on an entity e, with n not in use by another
\* entity, lookup_name(n) is e and lookup_entity(e).name is n, whether or not
\* e has a class and whether or not the Registry resource existed.
C20_SetNameRegistersTheName == [][C20_Step]_vars


\* ---------------------------------------------------------------------------
\* One Scanner on its own (engine.rs Scanner)

\* The record of one scan_to call: the name asked for, what was returned, and
\* whether the names asked for since the last reset never decreased.
Scanned(var, r, ordered) == [var |-> var, r |-> r, ordered |-> ordered]

\* A query of one scanner over the items of a Props, as Query::build makes it;
\* the Props holds some of the variables, each with a number.
ScannerInit ==
    /\ query \in {QueryBuild(<<props>>, EncoderDefault).query :
                    props \in UNION {[dom -> {Num(0), Num(1)}] : dom \in SUBSET Vars}}
    /\ scanned = None
    /\ program = <<>>
    /\ compiled = None
    /\ criteria = <<>>
    /\ rules = <<>>
    /\ response_groups = <<>>
    /\ encoder = EncoderDefault
    /\ character_props = <<>>
    /\ world_props = <<>>
    /\ selected = None
    /\ response = None
    /\ calls = 0
    /\ nsel = [name \in RuleNames |-> 0]
    /\ emitted = <<>>
    /\ nexts = <<>>
    /\ panicked = FALSE
    /\ operands = <<>>
    /\ outcome = None
    /\ world = <<>>

\* One call of Scanner::scan_to on the scanner.
ScannerCall(var) ==
    /\ query' = [scanners |-> <<ScannerScanTo(query.scanners[1], var).s>>]
    /\ scanned' = Some(Scanned(var, ScannerScanTo(query.scanners[1], var).r,
                               scanned = None \/ (scanned[1].ordered /\ scanned[1].var <= var)))
    /\ UNCHANGED <<program, criteria, rules, response_groups, encoder, character_props,
                   world_props, selected, response, calls, nsel, emitted, nexts,
                   panicked, compiled, operands, outcome, world>>

\* One call of reset on the query: every scanner's cursor returns to 0.
ResetCall ==
    /\ query' = QueryReset(query)
    /\ scanned' = None
    /\ UNCHANGED <<program, criteria, rules, response_groups, encoder, character_props,
                   world_props, selected, response, calls, nsel, emitted, nexts,
                   panicked, compiled, operands, outcome, world>>

ScannerSpec == ScannerInit /\ [][(\E var \in Vars : ScannerCall(var)) \/ ResetCall]_vars

\* The value an ordered item list holds for a name, if any.
Held(items, var) ==
    IF \E k \in 1..Len(items) : items[k][1] = var
    THEN Some(items[CHOOSE k \in 1..Len(items) : items[k][1] = var][2])
    ELSE None

\* A scan_to(var) step of the scanner: the cursor stops at the first item at
\* or after the old cursor whose name is >= var, or at the end; the value of
\* that item is returned iff its name is var; and after calls with
\* non-decreasing names the value returned is the one the list holds.
ScannerStep(var) ==
    LET items == query.scanners[1].items
        old == query.scanners[1].cursor
        new == query'.scanners[1].cursor
    IN /\ query'.scanners[1].items = items
       /\ old <= new /\ new <= Len(items)
       /\ \A k \in (old + 1)..new : items[k][1] < var
       /\ new < Len(items) => items[new + 1][1] >= var
       /\ scanned'[1].r = IF new < Len(items) /\ items[new + 1][1] = var
                          THEN Some(items[new + 1][2])
                          ELSE None
       /\ scanned'[1].ordered => scanned'[1].r = Held(items, var)

\* C21: scan_to(var) moves the cursor to the first entry at or after it whose
\* name is >= var (the end if none) and returns that entry's value iff its
\* name is var; the cursor never decreases between resets nor passes the end;
\* with non-decreasing names since the last reset every call returns the value
\* the list holds for the name, or nothing.
C21_ScanToFindsTheValue ==
    [][/\ \A var \in Vars : ScannerCall(var) => ScannerStep(var)
       /\ ResetCall => query'.scanners[1].cursor = 0]_vars

\* A call after an earlier one with a smaller name has moved the cursor onto
\* a later item and returned its value.
C21_Witness ==
    /\ IsSome(scanned)
    /\ scanned[1].ordered
    /\ IsSome(scanned[1].r)
    /\ query.scanners[1].cursor >= 1
    /\ query.scanners[1].items[query.scanners[1].cursor + 1][1] = scanned[1].var


\* The names of a list are in strictly ascending order.
Ascending(names) == \A k \in 1..(Len(names) - 1) : names[k] < names[k + 1]

\* The variables match_rule_criteria scans for a rule of an engine, in order.
ScannedVariables(engine, rule) ==
    [k \in 1..Len(rule.criteria) |-> engine.criteria[rule.criteria[k] + 1].variable]

\* C22: between two resets of the query scan_to gets names in non-decreasing
\* order: the partition variables of a compiled engine are in ascending
\* order, and the criteria list of each of its rules is in ascending variable
\* order, has no variable twice and has no partition criterion.
C22_ScansAreInAscendingOrder ==
    (IsSome(compiled) /\ IsSome(compiled[1].engine)) =>
        LET engine == compiled[1].engine[1]
        IN /\ Ascending(engine.rules.vars)
           /\ \A key \in DOMAIN engine.rules.partitions :
                \A i \in 1..Len(engine.rules.partitions[key]) :
                    LET rule == engine.rules.partitions[key][i]
                    IN /\ Ascending(ScannedVariables(engine, rule))
                       /\ \A k \in 1..Len(rule.criteria) :
                            ~ /\ engine.criteria[rule.criteria[k] + 1].min =
                                    engine.criteria[rule.criteria[k] + 1].max
                              /\ engine.criteria[rule.criteria[k] + 1].variable
                                    \in SeqRange(engine.rules.vars)

\* An engine has two partition variables and holds a rule whose definition
\* lists its criteria in descending variable order, and a rule whose partition
\* criterion went to its key.
C22_Witness ==
    /\ IsSome(compiled)
    /\ IsSome(compiled[1].engine)
    /\ Len(compiled[1].engine[1].rules.vars) = 2
    /\ \E key \in DOMAIN compiled[1].engine[1].rules.partitions :
        \E i \in 1..Len(compiled[1].engine[1].rules.partitions[key]) :
            /\ program.rules[compiled[1].engine[1].rules.partitions[key][i].name].criteria
                    = <<"Low", "Talk">>
            /\ Len(compiled[1].engine[1].rules.partitions[key][i].criteria) = 2
    /\ \E key \in DOMAIN compiled[1].engine[1].rules.partitions :
        \E i \in 1..Len(compiled[1].engine[1].rules.partitions[key]) :
            /\ program.rules[compiled[1].engine[1].rules.partitions[key][i].name].criteria
                    = <<"Hp1", "Talk">>
            /\ Len(compiled[1].engine[1].rules.partitions[key][i].criteria) = 1


\* ---------------------------------------------------------------------------
\* One Query over the three bags (engine.rs Query)

\* The query find_best_response builds from the request, character and world
\* stores.  The stores hold some of the variables each; a value names its
\* store: 0 in the request, 1 in the character and 2 in the world store.
QueryInit ==
    /\ query \in {QueryBuild(<<[v \in request |-> Num(0)], [v \in character |-> Num(1)],
                              [v \in wide |-> Num(2)]>>, EncoderDefault).query :
                    request \in SUBSET Vars, character \in SUBSET Vars, wide \in SUBSET Vars}
    /\ scanned = None
    /\ program = <<>>
    /\ compiled = None
    /\ criteria = <<>>
    /\ rules = <<>>
    /\ response_groups = <<>>
    /\ encoder = EncoderDefault
    /\ character_props = <<>>
    /\ world_props = <<>>
    /\ selected = None
    /\ response = None
    /\ calls = 0
    /\ nsel = [name \in RuleNames |-> 0]
    /\ emitted = <<>>
    /\ nexts = <<>>
    /\ panicked = FALSE
    /\ operands = <<>>
    /\ outcome = None
    /\ world = <<>>

\* One call of Query::scan_to.
QueryCall(var) ==
    /\ query' = QueryScanTo(query, var).q
    /\ scanned' = Some(Scanned(var, QueryScanTo(query, var).r,
                               scanned = None \/ (scanned[1].ordered /\ scanned[1].var <= var)))
    /\ UNCHANGED <<program, criteria, rules, response_groups, encoder, character_props,
                   world_props, selected, response, calls, nsel, emitted, nexts,
                   panicked, compiled, operands, outcome, world>>

QuerySpec == QueryInit /\ [][(\E var \in Vars : QueryCall(var)) \/ ResetCall]_vars

\* The bags of the query that hold the variable, by position.
Holders(var) ==
    {k \in 1..Len(query.scanners) : IsSome(Held(query.scanners[k].items, var))}

\* C23: with non-decreasing names since the last reset, Query::scan_to(var)
\* returns the value of var from the first bag in listed order (request,
\* character, world) that holds var, and nothing iff no bag holds it; a later
\* bag never shadows an earlier one.
C23_FirstBagWins ==
    [][\A var \in Vars :
        (QueryCall(var) /\ scanned'[1].ordered) =>
            scanned'[1].r =
                IF Holders(var) = {} THEN None
                ELSE Held(query.scanners[CHOOSE k \in Holders(var) :
                                            \A j \in Holders(var) : k <= j].items, var)]_vars

\* A call in order returned the character store's value of a variable that
\* the world store holds too and the request does not.
C23_Witness ==
    /\ IsSome(scanned)
    /\ scanned[1].ordered
    /\ scanned[1].var > 1
    /\ scanned[1].r = Some(1)
    /\ Holders(scanned[1].var) = {2, 3}


\* ---------------------------------------------------------------------------
\* The partition keys of a query (checked under Spec)

\* The partition variables the query of a request has a value for.
PresentPartitionVariables(request_props) ==
    {v \in SeqRange(rules.vars) : IsSome(FirstBagValue(request_props, v))}

\* The key of a set of present variables: their (variable, value) pairs in
\* ascending order of the variable.
SubsetKey(enc, request_props, S) ==
    LET names == SortedNames(S)
    IN GetPartitionKeyForAssignments(
        [k \in 1..Len(names) |-> <<names[k], QueryCode(enc, request_props, names[k])[1]>>])

\* C24: for a query with k of the partition variables present,
\* get_partition_keys_for_query returns one key for each of the 2^k subsets
\* of the k assignments, the empty one included, each over the subset's pairs
\* in ascending variable order; every rule the scan finds lies in a partition
\* stored under one of these keys, and a key without a stored partition
\* yields no rules.
C24_OneKeyPerSubsetOfAssignments ==
    \A request_props \in Requests :
        LET built == Built(request_props)
            keys == GetPartitionKeysForQuery(rules, built.query)
            present == PresentPartitionVariables(request_props)
        IN /\ Len(keys) = 2 ^ Cardinality(present)
           /\ SeqRange(keys) =
                {SubsetKey(built.encoder, request_props, S) : S \in SUBSET present}
           /\ \A id \in SeqRange(BestRules(built)) :
                id.key \in SeqRange(keys) \cap DOMAIN rules.partitions
           /\ \A k \in 1..Len(keys) :
                keys[k] \notin DOMAIN rules.partitions => GetPartition(rules, keys[k]) = <<>>

\* Two partition variables are declared, a call selected a rule stored under
\* the key of one assignment, and for some request with both variables
\* present one of the four keys has no stored partition.
C24_Witness ==
    /\ Len(rules.vars) = 2
    /\ IsSome(selected)
    /\ Len(selected[1].key) = 1
    /\ \E request_props \in Requests :
        LET keys == GetPartitionKeysForQuery(rules, Built(request_props).query)
        IN /\ Cardinality(PresentPartitionVariables(request_props)) = 2
           /\ Len(keys) = 4
           /\ \E k \in 1..4 : keys[k] \notin DOMAIN rules.partitions


\* ---------------------------------------------------------------------------
\* The third loop of finish, one Rule::build per step: the rules of a script
\* built in the map's iteration order against the criteria and response groups
\* of the first two loops, one context threaded through the loop

\* One iteration of `for (name, rule) in self.rules.into_iter()`: the call of
\* Rule::build for the rule at the loop's position, on the context the
\* previous iteration left (the context after the group loop for the first).
RuleBuildCall ==
    /\ calls < Len(program.rule_order)
    /\ LET built_criteria == CompileCriteria(program, 1,
                                [criteria |-> <<>>, criteria_index |-> <<>>], ContextDefault)
           built_groups == CompileGroups(program, 1,
                                [response_groups |-> <<>>, response_group_index |-> <<>>],
                                built_criteria.ctx)
           name == program.rule_order[calls + 1]
           ctx == IF calls = 0 THEN built_groups.ctx ELSE outcome[1].ctx
       IN outcome' = Some(RuleBuild(program.rules[name], name, ctx,
                                    built_criteria.criteria, built_criteria.criteria_index,
                                    built_groups.response_group_index))
    /\ calls' = calls + 1
    /\ UNCHANGED <<program, criteria, rules, response_groups, encoder, character_props,
                   world_props, selected, response, nsel, emitted, nexts, panicked,
                   compiled, operands, world, query, scanned>>

RuleSpec == CompilerInit /\ [][RuleBuildCall]_vars

\* The criterion at position k of a rule's list counts: its name resolves and
\* no earlier resolved name of the list is on the same variable.
Counted(names, k) ==
    /\ names[k] \in DOMAIN program.criteria
    /\ \A j \in 1..(k - 1) :
        names[j] \in DOMAIN program.criteria =>
            program.criteria[names[j]].variable # program.criteria[names[k]].variable

\* The sum of the weights of the counted criteria from position k on.
RECURSIVE CountedWeight(_, _)
CountedWeight(names, k) ==
    IF k > Len(names) THEN 0
    ELSE (IF Counted(names, k) THEN program.criteria[names[k]].weight ELSE 0)
            + CountedWeight(names, k + 1)

\* C25: the score of a built rule is the sum of the weights of the criteria
\* it references, counting for each variable only the first criterion on it;
\* names that resolve to no criterion add nothing, and criteria that became
\* partition criteria are counted.
C25_ScoreSumsTheCountedWeights ==
    IsSome(outcome) =>
        outcome[1].rule.score =
            CountedWeight(program.rules[outcome[1].rule.name].criteria, 1)

\* A rule was built whose list has a partition criterion, a second criterion
\* on the same variable and a name no criterion has.
C25_Witness ==
    /\ IsSome(outcome)
    /\ outcome[1].partition_key # <<>>
    /\ outcome[1].rule.score > 0
    /\ LET names == program.rules[outcome[1].rule.name].criteria
       IN /\ \E k \in 1..Len(names) : names[k] \notin DOMAIN program.criteria
          /\ \E k \in 1..Len(names) :
                names[k] \in DOMAIN program.criteria /\ ~Counted(names, k)

\* The position of the last instruction of the list on a variable.
LastInstructionOn(instructions, v) ==
    CHOOSE k \in 1..Len(instructions) :
        /\ instructions[k].variable = v
        /\ \A j \in (k + 1)..Len(instructions) : instructions[j].variable # v

\* C29: a built rule holds one instruction for each variable its list names,
\* the last one listed for that variable, and the global flag of that last
\* instruction decides the store it targets.
C29_LastInstructionPerVariableWins ==
    IsSome(outcome) =>
        LET listed == program.rules[outcome[1].rule.name].instructions
            kept == outcome[1].rule.instructions
        IN /\ DOMAIN kept = {listed[k].variable : k \in 1..Len(listed)}
           /\ \A v \in DOMAIN kept :
                kept[v] = [global |-> listed[LastInstructionOn(listed, v)].global,
                           op |-> listed[LastInstructionOn(listed, v)].operation]

\* A rule was built from two instructions on one variable that differ in
\* operation and in global flag.
C29_Witness ==
    /\ IsSome(outcome)
    /\ LET listed == program.rules[outcome[1].rule.name].instructions
       IN \E j, k \in 1..Len(listed) :
            /\ j < k
            /\ listed[j].variable = listed[k].variable
            /\ listed[j].global # listed[k].global
            /\ listed[j].operation # listed[k].operation
            /\ outcome[1].rule.instructions[listed[k].variable].global = listed[k].global


\* ---------------------------------------------------------------------------
\* One Encoder on its own: encode and encode_ustr are called on it again and
\* again

\* The values passed to the encoder.
EncodedValues ==
    {Bool(TRUE), Bool(FALSE), Num(0), Num(MaxNum)}
        \cup {Str(ustr) : ustr \in {"bye", "hi", "talk", "yell"}}

EncoderInit ==
    /\ encoder = EncoderDefault
    /\ operands = <<>>
    /\ outcome = None
    /\ program = <<>>
    /\ compiled = None
    /\ criteria = <<>>
    /\ rules = <<>>
    /\ response_groups = <<>>
    /\ character_props = <<>>
    /\ world_props = <<>>
    /\ selected = None
    /\ response = None
    /\ calls = 0
    /\ nsel = <<>>
    /\ emitted = <<>>
    /\ nexts = <<>>
    /\ panicked = FALSE
    /\ query = <<>>
    /\ scanned = <<>>
    /\ world = <<>>

\* One call of Encoder::encode; operands holds the value passed and outcome
\* the code returned.
EncodeCall(value) ==
    /\ encoder' = Encode(encoder, value).encoder
    /\ outcome' = Some(Encode(encoder, value).code)
    /\ operands' = <<value>>
    /\ UNCHANGED <<program, criteria, rules, response_groups, character_props,
                   world_props, selected, response, calls, nsel, emitted, nexts, panicked,
                   compiled, world, query, scanned>>

\* One call of Encoder::encode_ustr.
EncodeUstrCall(ustr) ==
    /\ encoder' = EncodeUstr(encoder, ustr).encoder
    /\ outcome' = Some(EncodeUstr(encoder, ustr).code)
    /\ operands' = <<Str(ustr)>>
    /\ UNCHANGED <<program, criteria, rules, response_groups, character_props,
                   world_props, selected, response, calls, nsel, emitted, nexts, panicked,
                   compiled, world, query, scanned>>

EncoderSpec ==
    EncoderInit /\ [][\E value \in EncodedValues :
                        \/ EncodeCall(value)
                        \/ value.t = "Str" /\ EncodeUstrCall(value.s)]_vars

\* The strings the encoder has a code for.
Observed(enc) == {value.s : value \in {v \in EncodedValues : v.t = "Str" /\ HasCode(enc, v.s)}}

\* Different strings have different codes, and the next code to hand out is
\* above every code of the table.
C26_State ==
    /\ \A a, b \in Observed(encoder) : a # b => CodeOf(encoder, a) # CodeOf(encoder, b)
    /\ \A a \in Observed(encoder) : CodeOf(encoder, a) < encoder.next_float

\* What a call with the given value returns and does to the table.
C26_Call(value) ==
    IF value.t # "Str"
    THEN /\ encoder' = encoder
         /\ outcome' = Some(CASE value.t = "Num" -> value.n
                              [] value.b -> 1
                              [] OTHER -> 0)
    ELSE IF value.s \in Observed(encoder)
    THEN /\ encoder' = encoder
         /\ outcome' = Some(CodeOf(encoder, value.s))
    ELSE /\ Observed(encoder') = Observed(encoder) \cup {value.s}
         /\ outcome' = Some(CodeOf(encoder', value.s))
         /\ \A a \in Observed(encoder) :
                /\ CodeOf(encoder', a) = CodeOf(encoder, a)
                /\ CodeOf(encoder, a) < CodeOf(encoder', value.s)

C26_Step ==
    \A value \in EncodedValues :
        (EncodeCall(value) \/ (value.t = "Str" /\ EncodeUstrCall(value.s))) =>
            C26_Call(value)

\* C26: within one encoder, after any sequence of encode and encode_ustr
\* calls, different strings have different codes, a string keeps its first
\* code (encoding it again returns that code and changes nothing), a newly
\* observed string gets a code above every code handed out before, the next
\* code is above every code of the table, and booleans encode to 0 and 1 and
\* numbers to themselves without changing the table.
C26_CodesAreDistinctStableAndIncreasing == [](C26_State) /\ [][C26_Step]_vars

\* Three strings were observed and the last call encoded the first of them
\* again, returning the first code handed out.
C26_Witness ==
    /\ Cardinality(Observed(encoder)) >= 3
    /\ operands # <<>>
    /\ operands[1].t = "Str"
    /\ outcome = Some(F32Min)
    /\ \A a \in Observed(encoder) : CodeOf(encoder, operands[1].s) <= CodeOf(encoder, a)


\* ---------------------------------------------------------------------------
\* Frame and effect of one find_best_response call (checked under Spec)

\* C27: a call of find_best_response for which find_best_matching_rule finds
\* no rule returns nothing and leaves the character props, the world props,
\* every dispatcher and every rule's enabled flag as they were.
C27_Step ==
    selected' = None =>
        /\ response' = None
        /\ character_props' = character_props
        /\ world_props' = world_props
        /\ \A g \in 1..Len(response_groups) :
            response_groups'[g].dispatcher = response_groups[g].dispatcher
        /\ \A id \in AllRuleIds : GetRule(rules', id).enabled = GetRule(rules, id).enabled

C27_NoMatchChangesNothing == [][C27_Step]_vars

\* The last call found no rule, after earlier calls wrote to a store,
\* advanced a dispatcher and disabled a rule.
C27_Witness ==
    /\ calls >= 2
    /\ selected = None
    /\ response = None
    /\ character_props # <<>> \/ world_props # <<>>
    /\ \E g \in 1..Len(response_groups) : emitted[g] # {}
    /\ \E id \in AllRuleIds : ~GetRule(rules, id).enabled


C28_Step ==
    (IsSome(selected') /\ response' = None) =>
        \A var \in DOMAIN SelectedInstructions : Applied(SelectedInstructions[var], var)

\* C28: a call of find_best_response that selects a rule applies every
\* instruction of the rule to its store even when the call returns nothing
\* because each response group of the rule is exhausted or empty, so calls
\* repeated against such a rule change the stores each time.
C28_InstructionsApplyWithoutResponse == [][C28_Step]_vars

\* Three calls selected a rule whose only group is a Deplete group that
\* emitted once and then had nothing to give; its NumAdd(1) on the world
\* store ran in each of the three calls.
C28_Witness ==
    /\ calls = 3
    /\ IsSome(selected)
    /\ response = None
    /\ ~panicked
    /\ nsel[GetRule(rules, selected[1]).name] = 3
    /\ GetRule(rules, selected[1]).enabled
    /\ \A g \in SeqRange(GetRule(rules, selected[1]).response_groups) :
            Cardinality(emitted[g + 1]) = 1
    /\ \E var \in DOMAIN GetRule(rules, selected[1]).instructions :
        /\ GetRule(rules, selected[1]).instructions[var] =
                [global |-> TRUE, op |-> NumAdd(1)]
        /\ PropsGetValue(world_props, var) = Some(Num(3))


\* ---------------------------------------------------------------------------
\* The dispatchers and enabled flags over a run of find_best_response calls
\* (checked under Spec)

\* The response the last call returned is a response of its group, and the
\* candidate lists of the Shuffle and Deplete dispatchers hold distinct
\* indices of their groups' responses.
C30_State ==
    /\ IsSome(response) =>
        /\ response[1][1] + 1 \in 1..Len(response_groups)
        /\ response[1][2] + 1 \in 1..Len(response_groups[response[1][1] + 1].responses)
    /\ \A g \in 1..Len(response_groups) :
        LET d == response_groups[g].dispatcher
        IN d.kind \in {"Shuffle", "Deplete"} =>
            /\ \A k \in 1..Len(d.candidates) :
                d.candidates[k] \in 0..(Len(response_groups[g].responses) - 1)
            /\ \A j, k \in 1..Len(d.candidates) :
                j # k => d.candidates[j] # d.candidates[k]

\* A call changes no dispatcher but that of the group whose response it
\* returns, and enables no disabled rule.
C30_Step ==
    /\ \A g \in 1..Len(response_groups) :
        response_groups'[g] # response_groups[g] =>
            /\ IsSome(response')
            /\ response'[1][1] + 1 = g
    /\ \A id \in AllRuleIds :
        ~GetRule(rules, id).enabled => ~GetRule(rules', id).enabled

\* C30: after any sequence of find_best_response calls every index a
\* dispatcher returned is an index of its group's responses, the candidate
\* lists of Shuffle and Deplete dispatchers hold pairwise distinct indices
\* below the number of responses, a call advances no dispatcher but the one
\* that emitted, and a rule's enabled flag, once false, stays false.
C30_DispatchersStayWellFormed == [](C30_State) /\ [][C30_Step]_vars

\* A rule with two groups was selected while some rule is disabled:
\* the call returned a response of one group whose dispatcher has candidates
\* left or a cursor moved, and the rule's other group is as it was built.
C30_Witness ==
    /\ calls >= 2
    /\ IsSome(selected)
    /\ IsSome(response)
    /\ Len(GetRule(rules, selected[1]).response_groups) = 2
    /\ \E g \in SeqRange(GetRule(rules, selected[1]).response_groups) :
        /\ g # response[1][1]
        /\ emitted[g + 1] = {}
    /\ \E g \in 1..Len(response_groups) :
        /\ response_groups[g].dispatcher.kind = "Shuffle"
        /\ Len(response_groups[g].dispatcher.candidates) = 1
    /\ \E id \in AllRuleIds : ~GetRule(rules, id).enabled

====
